---- MODULE Spec2Model ----
(***************************************************************************)
(* EchoVault: the audio recorder hook (use-audio-recorder.tsx), the        *)
(* RecordingInterface component that drives it and runs the                *)
(* upload/transcribe/analyze/persist pipeline, the two edge functions      *)
(* (transcribe-audio, analyze-recording), the search view and the          *)
(* knowledge-graph view.                                                   *)
(*                                                                         *)
(* Each part has its own specification over the shared variables:          *)
(*   Spec        the recorder hook and the component's record controls     *)
(***************************************************************************)
EXTENDS Integers, Sequences, FiniteSets, TLC

(***************************************************************************)
(* Bounds of the model.                                                    *)
(***************************************************************************)
MaxStarts == 2          \* startRecording() calls in one behaviour
MaxUnmounts == 1        \* teardowns of the RecordingInterface component
MaxChunks == 2          \* dataavailable events delivered in one behaviour
MaxElapsedMs == 65900   \* the clock runs from EpochStart to EpochStart + this
EpochStart == 5000      \* Date.now() when the page is loaded (> 0)

ClockDeltas == {65900}   \* amounts by which the clock advances in one step

(***************************************************************************)
(* Values.  A reference (useRef / useState holding an object) is the id of *)
(* the object, 0 standing for null.  One id is drawn per granted           *)
(* getUserMedia call: stream k, the MediaRecorder built on it and the      *)
(* interval started for it all carry the id k.  A Blob is the sequence of  *)
(* its bytes; an optional Blob is <<>> (null) or <<blob>>.                 *)
(***************************************************************************)
NoRef == 0
NoBlob == <<>>
SomeBlob(b) == <<b>>

(***************************************************************************)
(* JavaScript values, as far as the program inspects them: a value carries *)
(* its type in t and, unless undefined or null, its content in v; an       *)
(* object's content is the function from its own property names.           *)
(***************************************************************************)
Undefined == [t |-> "undefined"]
JsNull == [t |-> "null"]
Str(s) == [t |-> "string", v |-> s]
Num(n) == [t |-> "number", v |-> n]
Arr(seq) == [t |-> "array", v |-> seq]
Obj(fields) == [t |-> "object", v |-> fields]

\* x?.k for a value that is undefined, null or an object
Get(x, k) == IF x.t = "object" /\ k \in DOMAIN x.v THEN x.v[k] ELSE Undefined

\* x?.[i], zero-based, for a value that is undefined, null or an array
At(x, i) == IF x.t = "array" /\ i + 1 \in DOMAIN x.v THEN x.v[i + 1] ELSE Undefined

\* ToBoolean
Truthy(x) ==
    CASE x.t \in {"undefined", "null"} -> FALSE
      [] x.t = "string" -> x.v # ""
      [] x.t = "text" -> x.v # <<>>
      [] x.t = "chars" -> x.v # <<>>
      [] x.t = "number" -> x.v # 0
      [] OTHER -> TRUE

RECURSIVE Concat(_)
Concat(blobs) == IF blobs = <<>> THEN <<>> ELSE Head(blobs) \o Concat(Tail(blobs))

(***************************************************************************)
(* Strings that the program formats or inspects are sequences of           *)
(* one-character strings.                                                  *)
(***************************************************************************)
Digits == <<"0", "1", "2", "3", "4", "5", "6", "7", "8", "9">>

RECURSIVE toString(_)
toString(n) == IF n < 10 THEN <<Digits[n + 1]>>
               ELSE toString(n \div 10) \o <<Digits[(n % 10) + 1]>>

padStart2(s) == IF Len(s) < 2 THEN <<"0">> \o s ELSE s

\* formatElapsed with Math.round in place of Math.floor for the seconds
formatElapsedRounded(elapsed) ==
    LET seconds == (elapsed + 500) \div 1000
        minutes == seconds \div 60
        remainingSeconds == seconds % 60
    IN  padStart2(toString(minutes)) \o <<":">> \o padStart2(toString(remainingSeconds))

\* lines 33-37 of updateDuration: elapsed milliseconds to "MM:SS"
formatElapsed(elapsed) ==
    LET seconds == elapsed \div 1000
        minutes == seconds \div 60
        remainingSeconds == seconds % 60
    IN  padStart2(toString(minutes)) \o <<":">> \o padStart2(toString(remainingSeconds))

ZeroDuration == <<"0", "0", ":", "0", "0">>

VARIABLES
    \* useAudioRecorder state and refs
    isRecording, isPaused, duration, audioBlob,
    mediaRecorderRef, streamRef, chunksRef, startTimeRef, intervalRef,
    \* RecordingInterface state
    mounted, title, isProcessing, audioUrl,
    \* useToast, a store outside the component: the toast on display and the
    \* number of toasts shown so far
    toast, toastCount,
    \* the browser
    now,            \* Date.now()
    webmSupported,  \* whether this browser's MediaRecorder accepts audio/webm
    pendingStarts,  \* startRecording() calls of the mounted component awaiting getUserMedia
    stalePending,   \* the same, issued by a component instance that has been unmounted
    sessions,       \* number of streams granted so far
    liveStreams,    \* streams whose tracks have not been stopped
    recorderState,  \* MediaRecorder id -> "recording" | "paused" | "inactive"
    onstop,         \* MediaRecorder id -> "start" (lines 72-75) | "stop" (lines 138-159)
    stopQueued,     \* recorders whose stop() has queued the dataavailable + stop task
    activeTimers,   \* intervals set and not cleared
    orphans,        \* sessions created by a component instance that has been unmounted
    \* an edge function serving one request
    reqMethod,      \* the HTTP method of the request
    reqBody,        \* the JSON body of the request
    geminiApiKey,   \* Deno.env.get('GEMINI_API_KEY')
    geminiReply,    \* what the generative-AI endpoint answers if it is asked
    httpResponse,   \* the Response returned, once the handler has run
    fetchCount,     \* requests made to the generative-AI endpoint
    \* handleSaveAndTranscribe: where the run stands and its locals
    savePc, fileName, base64Length, transcriptionData, analysisData, pendingRow,
    \* the backend: the recordings bucket, the recordings and highlights tables
    storageObjects, recordings, highlights,
    savedEvents,    \* 'recording-saved' events dispatched
    runs,           \* runs of handleSaveAndTranscribe so far
    rowsBefore,     \* the recordings table when the current run began
    lastInvoke,     \* what the latest functions.invoke returned, and the response behind it
    \* KnowledgeGraph: useNodesState, useEdgesState, isLoading
    nodes, edges, isLoading,
    \* SearchInterface: query, allRecordings, results
    query, allRecordings, results,
    \* the Index page (part_003 329-815)
    activeTab,        \* the tab whose content is rendered
    indexRecordings,  \* its recordings state, the list of the Library tab
    indexFetched,     \* calls of its fetchRecordings that have settled since it mounted
    searchPending,    \* the fetch of a mounted SearchInterface is in flight
    deletePc,         \* the await handleDeleteRecording is suspended at
    deleteTarget,     \* the recording it found in the list
    deletesDone,      \* deletions that went through, each followed by a fetchRecordings
    \* history
    starts, unmounts, produced,
    received,       \* every byte handed to ondataavailable since chunksRef was last emptied
    last            \* the handler that ran last, with its outcome

recorderVars == <<isRecording, isPaused, duration, audioBlob,
                  mediaRecorderRef, streamRef, chunksRef, startTimeRef, intervalRef>>
componentVars == <<mounted, title, isProcessing, audioUrl>>
browserVars == <<now, webmSupported, pendingStarts, stalePending, sessions, liveStreams, recorderState,
                 onstop, stopQueued, activeTimers, orphans>>
historyVars == <<starts, unmounts, produced, received, last>>

toasts == <<toast, toastCount>>
serviceVars == <<reqMethod, reqBody, geminiApiKey, geminiReply, httpResponse, fetchCount>>
saveVars == <<savePc, fileName, base64Length, transcriptionData, analysisData, pendingRow,
              savedEvents, runs, rowsBefore, lastInvoke>>
backendVars == <<storageObjects, recordings, highlights>>
pageVars == <<activeTab, indexRecordings, indexFetched, searchPending, deletePc, deleteTarget,
              deletesDone>>
viewVars == <<nodes, edges, isLoading, query, allRecordings, results, pageVars>>
nonRecorderVars == <<serviceVars, saveVars, backendVars, viewVars>>

vars == <<recorderVars, componentVars, toasts, browserVars, historyVars, serviceVars,
         saveVars, backendVars, viewVars>>

DefaultTitle == "New Recording"

Idle == [op |-> "none", outcome |-> "none"]

NoToast == [title |-> "", description |-> ""]

\* useState / useRef initial values, lines 16-25
HookInit ==
    /\ isRecording = FALSE
    /\ isPaused = FALSE
    /\ duration = ZeroDuration
    /\ audioBlob = NoBlob
    /\ mediaRecorderRef = NoRef
    /\ streamRef = NoRef
    /\ chunksRef = <<>>
    /\ startTimeRef = 0
    /\ intervalRef = NoRef

\* RecordingInterface as mounted, part_001 15-17, with no toast on display
ComponentInit ==
    /\ mounted = TRUE
    /\ title = DefaultTitle
    /\ isProcessing = FALSE
    /\ audioUrl = NoRef
    /\ toast = NoToast
    /\ toastCount = 0

\* the page just loaded: nothing requested from the browser yet
BrowserInit ==
    /\ now = EpochStart
    /\ pendingStarts = 0
    /\ stalePending = 0
    /\ sessions = 0
    /\ liveStreams = {}
    /\ recorderState = <<>>
    /\ onstop = <<>>
    /\ stopQueued = {}
    /\ activeTimers = {}
    /\ orphans = {}
    /\ starts = 0
    /\ unmounts = 0
    /\ produced = 0
    /\ received = <<>>
    /\ last = Idle

\* no request at an edge function
ServiceIdle ==
    /\ reqMethod = ""
    /\ reqBody = Undefined
    /\ geminiApiKey = Undefined
    /\ geminiReply = Undefined
    /\ httpResponse = Undefined
    /\ fetchCount = 0

\* no run of handleSaveAndTranscribe, an empty backend
SaveIdle ==
    /\ savePc = "idle"
    /\ fileName = Undefined
    /\ base64Length = 0
    /\ transcriptionData = Undefined
    /\ analysisData = Undefined
    /\ pendingRow = Undefined
    /\ savedEvents = 0
    /\ runs = 0
    /\ rowsBefore = <<>>
    /\ lastInvoke = Undefined

BackendEmpty ==
    /\ storageObjects = {}
    /\ recordings = <<>>
    /\ highlights = <<>>

\* part_003 330-331: the page as first rendered, on the Record tab, with no
\* request of its own in flight
PageInit ==
    /\ activeTab = "record"
    /\ indexRecordings = <<>>
    /\ indexFetched = 0
    /\ searchPending = FALSE
    /\ deletePc = "idle"
    /\ deleteTarget = Undefined
    /\ deletesDone = 0

\* knowledge-graph.tsx 115-117 and search-interface.tsx 21-24: the views as
\* first rendered
ViewsInit ==
    /\ nodes = <<>>
    /\ edges = <<>>
    /\ isLoading = TRUE
    /\ query = <<>>
    /\ allRecordings = <<>>
    /\ results = <<>>
    /\ PageInit

Init ==
    /\ HookInit
    /\ ComponentInit
    /\ BrowserInit
    /\ webmSupported \in BOOLEAN
    /\ ServiceIdle
    /\ SaveIdle
    /\ BackendEmpty
    /\ ViewsInit


(***************************************************************************)
(* startRecording, lines 41-113.                                           *)
(***************************************************************************)
MsgGeneric == "Failed to start recording. Please check microphone permissions."
MsgDenied == "Microphone access denied. Please allow microphone permissions and try again."
MsgNotFound == "No microphone found. Please connect a microphone and try again."
MsgUnsupported == "Your browser doesn't support audio recording."

\* What can be thrown inside the try block: getUserMedia rejects with a
\* DOMException, or navigator.mediaDevices is undefined and the call throws a
\* TypeError, which is no DOMException.
GetUserMediaErrors ==
    { [dom |-> TRUE, name |-> "NotAllowedError"],
      [dom |-> TRUE, name |-> "NotFoundError"],
      [dom |-> TRUE, name |-> "NotSupportedError"],
      [dom |-> TRUE, name |-> "NotReadableError"],
      [dom |-> FALSE, name |-> "TypeError"] }

\* new MediaRecorder(stream, {mimeType: ... 'audio/webm'}) throws in a browser
\* that cannot record audio/webm, on every call
RecorderCtorError == [dom |-> TRUE, name |-> "NotSupportedError"]

\* errorMessage with the NotFoundError case falling into the NotAllowedError one
errorMessageMerged(error) ==
    IF error.dom
    THEN CASE error.name \in {"NotAllowedError", "NotFoundError"} -> MsgDenied
           [] error.name = "NotSupportedError" -> MsgUnsupported
           [] OTHER -> MsgGeneric
    ELSE MsgGeneric

\* the catch block, lines 89-105
errorMessage(error) ==
    IF error.dom
    THEN CASE error.name = "NotAllowedError" -> MsgDenied
           [] error.name = "NotFoundError" -> MsgNotFound
           [] error.name = "NotSupportedError" -> MsgUnsupported
           [] OTHER -> MsgGeneric
    ELSE MsgGeneric

RecordingErrorToast(error) == [title |-> "Recording Error", description |-> errorMessage(error)]

\* handleRecord (part_001 31-37) up to the await of line 44; the Record button
\* is rendered only while !isRecording (part_001 253-260)
handleRecord ==
    /\ mounted
    /\ ~isRecording
    /\ starts < MaxStarts
    /\ starts' = starts + 1
    /\ pendingStarts' = pendingStarts + 1
    /\ last' = [op |-> "handleRecord", outcome |-> "pending"]
    /\ UNCHANGED <<recorderVars, componentVars, toasts, now, webmSupported, stalePending, sessions,
                   liveStreams, recorderState, onstop, stopQueued, activeTimers, orphans,
                   unmounts, produced, received>>
    /\ UNCHANGED nonRecorderVars

\* getUserMedia rejects: the catch block shows one toast
startRecordingRejected(error) ==
    /\ pendingStarts > 0
    /\ pendingStarts' = pendingStarts - 1
    /\ toast' = RecordingErrorToast(error)
    /\ toastCount' = toastCount + 1
    /\ last' = [op |-> "startRecording", outcome |-> error.name]
    /\ UNCHANGED <<recorderVars, componentVars, now, webmSupported, stalePending, sessions,
                   liveStreams, recorderState, onstop, stopQueued, activeTimers, orphans,
                   starts, unmounts, produced, received>>
    /\ UNCHANGED nonRecorderVars

\* getUserMedia resolves, the MediaRecorder constructor throws (lines 55-58, 89-111)
startRecordingCtorThrows ==
    /\ pendingStarts > 0
    /\ ~webmSupported
    /\ pendingStarts' = pendingStarts - 1
    /\ sessions' = sessions + 1
    /\ liveStreams' = liveStreams \cup {sessions + 1}
    /\ recorderState' = Append(recorderState, "none")
    /\ onstop' = Append(onstop, "none")
    /\ streamRef' = sessions + 1
    /\ chunksRef' = <<>>
    /\ received' = <<>>
    /\ toast' = RecordingErrorToast(RecorderCtorError)
    /\ toastCount' = toastCount + 1
    /\ last' = [op |-> "startRecording", outcome |-> "ctorThrows"]
    /\ UNCHANGED <<isRecording, isPaused, duration, audioBlob, mediaRecorderRef,
                   startTimeRef, intervalRef, componentVars, now, webmSupported, stalePending,
                   stopQueued, activeTimers, orphans, starts, unmounts, produced>>
    /\ UNCHANGED nonRecorderVars

\* getUserMedia resolves and the recorder starts (lines 55-87)
startRecordingStarted ==
    /\ pendingStarts > 0
    /\ webmSupported
    /\ pendingStarts' = pendingStarts - 1
    /\ sessions' = sessions + 1
    /\ liveStreams' = liveStreams \cup {sessions + 1}
    /\ streamRef' = sessions + 1
    /\ chunksRef' = <<>>
    /\ received' = <<>>
    /\ recorderState' = Append(recorderState, "recording")
    /\ onstop' = Append(onstop, "start")
    /\ mediaRecorderRef' = sessions + 1
    /\ isRecording' = TRUE
    /\ isPaused' = FALSE
    /\ startTimeRef' = now
    /\ duration' = ZeroDuration
    /\ intervalRef' = sessions + 1
    /\ activeTimers' = activeTimers \cup {sessions + 1}
    /\ last' = [op |-> "startRecording", outcome |-> "started"]
    /\ UNCHANGED <<audioBlob, componentVars, toasts, now, webmSupported, stalePending, stopQueued,
                   orphans, starts, unmounts, produced>>
    /\ UNCHANGED nonRecorderVars

\* The same continuations for a call whose component instance has been
\* unmounted meanwhile: the refs and setters it touches belong to the dead
\* instance, the stream, the recorder, the interval and the toast are real.
staleStartRejected(error) ==
    /\ stalePending > 0
    /\ stalePending' = stalePending - 1
    /\ toast' = RecordingErrorToast(error)
    /\ toastCount' = toastCount + 1
    /\ last' = [op |-> "staleStart", outcome |-> error.name]
    /\ UNCHANGED <<recorderVars, componentVars, now, webmSupported, pendingStarts, sessions,
                   liveStreams, recorderState, onstop, stopQueued, activeTimers, orphans,
                   starts, unmounts, produced, received>>
    /\ UNCHANGED nonRecorderVars

staleStartCtorThrows ==
    /\ stalePending > 0
    /\ ~webmSupported
    /\ stalePending' = stalePending - 1
    /\ sessions' = sessions + 1
    /\ liveStreams' = liveStreams \cup {sessions + 1}
    /\ recorderState' = Append(recorderState, "none")
    /\ onstop' = Append(onstop, "none")
    /\ orphans' = orphans \cup {sessions + 1}
    /\ toast' = RecordingErrorToast(RecorderCtorError)
    /\ toastCount' = toastCount + 1
    /\ last' = [op |-> "staleStart", outcome |-> "ctorThrows"]
    /\ UNCHANGED <<recorderVars, componentVars, now, webmSupported, pendingStarts, stopQueued,
                   activeTimers, starts, unmounts, produced, received>>
    /\ UNCHANGED nonRecorderVars

staleStartStarted ==
    /\ stalePending > 0
    /\ webmSupported
    /\ stalePending' = stalePending - 1
    /\ sessions' = sessions + 1
    /\ liveStreams' = liveStreams \cup {sessions + 1}
    /\ recorderState' = Append(recorderState, "recording")
    /\ onstop' = Append(onstop, "start")
    /\ activeTimers' = activeTimers \cup {sessions + 1}
    /\ orphans' = orphans \cup {sessions + 1}
    /\ last' = [op |-> "staleStart", outcome |-> "started"]
    /\ UNCHANGED <<recorderVars, componentVars, toasts, now, webmSupported, pendingStarts, stopQueued,
                   starts, unmounts, produced, received>>
    /\ UNCHANGED nonRecorderVars

(***************************************************************************)
(* updateDuration, lines 29-39, run by the interval of line 86.  The       *)
(* callback of an orphaned interval sets the state of an unmounted         *)
(* component, which React ignores.                                         *)
(***************************************************************************)
updateDuration(timer) ==
    /\ timer \in activeTimers
    /\ timer \notin orphans
    /\ startTimeRef # 0
    /\ duration' = formatElapsed(now - startTimeRef)
    /\ last' = [op |-> "updateDuration", outcome |-> "set"]
    /\ UNCHANGED <<isRecording, isPaused, audioBlob, mediaRecorderRef, streamRef, chunksRef,
                   startTimeRef, intervalRef, componentVars, toasts, browserVars,
                   starts, unmounts, produced, received>>
    /\ UNCHANGED nonRecorderVars

\* the clock
Advance(d) ==
    /\ now + d <= EpochStart + MaxElapsedMs
    /\ now' = now + d
    /\ last' = [op |-> "Advance", outcome |-> "none"]
    /\ UNCHANGED <<recorderVars, componentVars, toasts, webmSupported, pendingStarts,
                   stalePending, sessions, liveStreams, recorderState, onstop, stopQueued,
                   activeTimers, orphans, starts, unmounts, produced, received>>
    /\ UNCHANGED nonRecorderVars

(***************************************************************************)
(* ondataavailable, lines 66-70: a timeslice of a recorder that is         *)
(* recording.  The handler reads chunksRef.current when it runs, so every  *)
(* recorder of the mounted instance pushes into the current array.         *)
(***************************************************************************)
pushChunk(chunks, data) == IF Len(data) > 0 THEN Append(chunks, data) ELSE chunks

ondataavailable(rec, size) ==
    /\ rec \in 1..sessions
    /\ rec \notin orphans
    /\ recorderState[rec] = "recording"
    /\ produced < MaxChunks
    /\ produced' = produced + 1
    /\ LET data == IF size = 0 THEN <<>> ELSE <<produced + 1>>
       IN  /\ chunksRef' = pushChunk(chunksRef, data)
           /\ received' = received \o data
    /\ last' = [op |-> "ondataavailable", outcome |-> IF size = 0 THEN "empty" ELSE "data"]
    /\ UNCHANGED <<isRecording, isPaused, duration, audioBlob, mediaRecorderRef, streamRef,
                   startTimeRef, intervalRef, componentVars, toasts, browserVars,
                   starts, unmounts>>
    /\ UNCHANGED nonRecorderVars

\* pauseRecording with a resume that starts a fresh chunk buffer
pauseRecordingFreshBuffer ==
    /\ mounted
    /\ isRecording
    /\ mediaRecorderRef # NoRef
    /\ IF recorderState[mediaRecorderRef] = "inactive"
       THEN /\ last' = [op |-> "pauseRecording", outcome |-> "throws"]
            /\ UNCHANGED <<isPaused, recorderState, chunksRef>>
       ELSE IF isPaused
       THEN /\ recorderState' = [recorderState EXCEPT ![mediaRecorderRef] = "recording"]
            /\ isPaused' = FALSE
            /\ chunksRef' = <<>>
            /\ last' = [op |-> "pauseRecording", outcome |-> "resumed"]
       ELSE /\ recorderState' = [recorderState EXCEPT ![mediaRecorderRef] = "paused"]
            /\ isPaused' = TRUE
            /\ last' = [op |-> "pauseRecording", outcome |-> "paused"]
            /\ UNCHANGED chunksRef
    /\ UNCHANGED <<isRecording, duration, audioBlob, mediaRecorderRef, streamRef,
                   startTimeRef, intervalRef, componentVars, toasts, now, webmSupported,
                   pendingStarts, stalePending, sessions, liveStreams, onstop, stopQueued,
                   activeTimers, orphans, starts, unmounts, produced, received>>
    /\ UNCHANGED nonRecorderVars

(***************************************************************************)
(* pauseRecording, lines 115-127, behind handlePause (part_001 39-41); the *)
(* Pause button is rendered only while isRecording.  pause() and resume()  *)
(* throw InvalidStateError on an inactive recorder, before the setter.     *)
(***************************************************************************)
pauseRecording ==
    /\ mounted
    /\ isRecording
    /\ mediaRecorderRef # NoRef
    /\ IF recorderState[mediaRecorderRef] = "inactive"
       THEN /\ last' = [op |-> "pauseRecording", outcome |-> "throws"]
            /\ UNCHANGED <<isPaused, recorderState>>
       ELSE IF isPaused
       THEN /\ recorderState' = [recorderState EXCEPT ![mediaRecorderRef] = "recording"]
            /\ isPaused' = FALSE
            /\ last' = [op |-> "pauseRecording", outcome |-> "resumed"]
       ELSE /\ recorderState' = [recorderState EXCEPT ![mediaRecorderRef] = "paused"]
            /\ isPaused' = TRUE
            /\ last' = [op |-> "pauseRecording", outcome |-> "paused"]
    /\ UNCHANGED <<isRecording, duration, audioBlob, mediaRecorderRef, streamRef, chunksRef,
                   startTimeRef, intervalRef, componentVars, toasts, now, webmSupported, pendingStarts,
                   stalePending, sessions, liveStreams, onstop, stopQueued, activeTimers,
                   orphans, starts, unmounts, produced, received>>
    /\ UNCHANGED nonRecorderVars


(***************************************************************************)
(* stopRecording, lines 129-163, behind handleStop (part_001 43-46); the   *)
(* Stop button is rendered only while isRecording.  The call installs the  *)
(* onstop handler of lines 138-159 and calls stop(); stop() on an inactive *)
(* recorder does nothing.  The promise resolves in the stop event.         *)
(***************************************************************************)
handleStop ==
    /\ mounted
    /\ isRecording
    /\ IF mediaRecorderRef = NoRef
       THEN /\ audioUrl' = NoRef
            /\ last' = [op |-> "handleStop", outcome |-> "null"]
            /\ UNCHANGED <<onstop, recorderState, stopQueued>>
       ELSE /\ onstop' = [onstop EXCEPT ![mediaRecorderRef] = "stop"]
            /\ IF recorderState[mediaRecorderRef] = "inactive"
               THEN UNCHANGED <<recorderState, stopQueued>>
               ELSE /\ recorderState' = [recorderState EXCEPT ![mediaRecorderRef] = "inactive"]
                    /\ stopQueued' = stopQueued \cup {mediaRecorderRef}
            /\ last' = [op |-> "handleStop", outcome |-> "stopping"]
            /\ UNCHANGED audioUrl
    /\ UNCHANGED <<recorderVars, mounted, title, isProcessing, toasts, now, webmSupported, pendingStarts,
                   stalePending, sessions, liveStreams, activeTimers, orphans,
                   starts, unmounts, produced, received>>
    /\ UNCHANGED nonRecorderVars

\* the stop task with an onstop handler that leaves the interval running
recorderStopTaskKeepsTimer(rec, size) ==
    /\ rec \in stopQueued
    /\ size = 1 => produced < MaxChunks
    /\ stopQueued' = stopQueued \ {rec}
    /\ produced' = produced + size
    /\ LET data == IF size = 0 THEN <<>> ELSE <<produced + 1>>
           chunks == pushChunk(chunksRef, data)
           blob == Concat(chunks)
       IN  /\ chunksRef' = chunks
           /\ received' = received \o data
           /\ audioBlob' = SomeBlob(blob)
           /\ IF onstop[rec] = "stop"
              THEN /\ liveStreams' = IF streamRef # NoRef THEN liveStreams \ {streamRef}
                                     ELSE liveStreams
                   /\ streamRef' = NoRef
                   /\ UNCHANGED <<activeTimers, intervalRef>>
                   /\ isRecording' = FALSE
                   /\ isPaused' = FALSE
                   /\ audioUrl' = rec
              ELSE UNCHANGED <<liveStreams, streamRef, activeTimers, intervalRef,
                               isRecording, isPaused, audioUrl>>
    /\ last' = [op |-> "onstop", outcome |-> onstop[rec]]
    /\ UNCHANGED <<duration, mediaRecorderRef, startTimeRef, mounted, title, isProcessing,
                   toasts, now, webmSupported, pendingStarts, stalePending, sessions, recorderState, onstop,
                   orphans, starts, unmounts>>
    /\ UNCHANGED nonRecorderVars

\* The task queued by stop(): a last dataavailable event with the data gathered
\* since the previous one, then the stop event, whose handler is the one
\* installed last.  handleStop resumes with the resolved URL (part_001 45);
\* the URL of the blob of recorder k is k.
recorderStopTask(rec, size) ==
    /\ rec \in stopQueued
    /\ size = 1 => produced < MaxChunks
    /\ stopQueued' = stopQueued \ {rec}
    /\ produced' = produced + size
    /\ LET data == IF size = 0 THEN <<>> ELSE <<produced + 1>>
           chunks == pushChunk(chunksRef, data)
           blob == Concat(chunks)
       IN  /\ chunksRef' = chunks
           /\ received' = received \o data
           /\ audioBlob' = SomeBlob(blob)
           /\ IF onstop[rec] = "stop"
              THEN /\ liveStreams' = IF streamRef # NoRef THEN liveStreams \ {streamRef}
                                     ELSE liveStreams
                   /\ streamRef' = NoRef
                   /\ activeTimers' = IF intervalRef # NoRef THEN activeTimers \ {intervalRef}
                                      ELSE activeTimers
                   /\ intervalRef' = NoRef
                   /\ isRecording' = FALSE
                   /\ isPaused' = FALSE
                   /\ audioUrl' = rec
              ELSE UNCHANGED <<liveStreams, streamRef, activeTimers, intervalRef,
                               isRecording, isPaused, audioUrl>>
    /\ last' = [op |-> "onstop", outcome |-> onstop[rec]]
    /\ UNCHANGED <<duration, mediaRecorderRef, startTimeRef, mounted, title, isProcessing,
                   toasts, now, webmSupported, pendingStarts, stalePending, sessions, recorderState, onstop,
                   orphans, starts, unmounts>>
    /\ UNCHANGED nonRecorderVars

\* stopRecording with an early return that also drops the stored blob
stopRecordingWhenIdleResetting ==
    /\ mounted
    /\ mediaRecorderRef = NoRef \/ ~isRecording
    /\ audioBlob' = NoBlob
    /\ last' = [op |-> "stopRecording", outcome |-> "null"]
    /\ UNCHANGED <<isRecording, isPaused, duration, mediaRecorderRef, streamRef, chunksRef,
                   startTimeRef, intervalRef, componentVars, toasts, browserVars,
                   starts, unmounts, produced, received>>
    /\ UNCHANGED nonRecorderVars

\* stopRecording, lines 129-130, called on the hook while there is no recorder
\* or isRecording is false: the early return of null.  RecordingInterface
\* renders its Stop and Pause buttons only while isRecording, so this call and
\* the one below come from a caller of the hook other than those buttons.
stopRecordingWhenIdle ==
    /\ mounted
    /\ mediaRecorderRef = NoRef \/ ~isRecording
    /\ last' = [op |-> "stopRecording", outcome |-> "null"]
    /\ UNCHANGED <<recorderVars, componentVars, toasts, browserVars,
                   starts, unmounts, produced, received>>
    /\ UNCHANGED nonRecorderVars

\* pauseRecording without the guard of line 116 on isRecording
pauseRecordingWhenIdleToggling ==
    /\ mounted
    /\ mediaRecorderRef = NoRef \/ ~isRecording
    /\ isPaused' = ~isPaused
    /\ last' = [op |-> "pauseRecording", outcome |-> "ignored"]
    /\ UNCHANGED <<isRecording, duration, audioBlob, mediaRecorderRef, streamRef, chunksRef,
                   startTimeRef, intervalRef, componentVars, toasts, browserVars,
                   starts, unmounts, produced, received>>
    /\ UNCHANGED nonRecorderVars

\* pauseRecording, lines 115-116, called while there is no recorder or
\* isRecording is false: the early return
pauseRecordingWhenIdle ==
    /\ mounted
    /\ mediaRecorderRef = NoRef \/ ~isRecording
    /\ last' = [op |-> "pauseRecording", outcome |-> "ignored"]
    /\ UNCHANGED <<recorderVars, componentVars, toasts, browserVars,
                   starts, unmounts, produced, received>>
    /\ UNCHANGED nonRecorderVars

(***************************************************************************)
(* handleDiscard, part_001 48-54; the Discard button is rendered while     *)
(* isRecording || audioUrl and disabled while isProcessing (293-303).      *)
(***************************************************************************)
handleDiscard ==
    /\ mounted
    /\ isRecording \/ audioUrl # NoRef
    /\ ~isProcessing
    /\ audioUrl' = NoRef
    /\ title' = DefaultTitle
    /\ last' = [op |-> "handleDiscard",
                outcome |-> IF isRecording THEN "recording" ELSE "stopped"]
    /\ UNCHANGED <<recorderVars, mounted, isProcessing, toasts, browserVars,
                   starts, unmounts, produced, received>>
    /\ UNCHANGED nonRecorderVars

(***************************************************************************)
(* Teardown of RecordingInterface (leaving the Record tab, part_003        *)
(* 646-671, or the page).  Neither the component nor the hook registers an *)
(* effect cleanup, so unmounting only drops the state and the refs; a      *)
(* later mount starts from the initial values.  The stop task runs within  *)
(* the same few milliseconds as stop() and is not interleaved with it.     *)
(***************************************************************************)
Unmount ==
    /\ mounted
    /\ ~isProcessing
    /\ stopQueued = {}
    /\ unmounts < MaxUnmounts
    /\ unmounts' = unmounts + 1
    /\ mounted' = FALSE
    /\ isRecording' = FALSE
    /\ isPaused' = FALSE
    /\ duration' = ZeroDuration
    /\ audioBlob' = NoBlob
    /\ mediaRecorderRef' = NoRef
    /\ streamRef' = NoRef
    /\ chunksRef' = <<>>
    /\ startTimeRef' = 0
    /\ intervalRef' = NoRef
    /\ title' = DefaultTitle
    /\ audioUrl' = NoRef
    /\ received' = <<>>
    /\ orphans' = 1..sessions
    /\ stalePending' = stalePending + pendingStarts
    /\ pendingStarts' = 0
    /\ last' = [op |-> "Unmount", outcome |-> IF isRecording THEN "recording" ELSE "idle"]
    /\ UNCHANGED <<isProcessing, toasts, now, webmSupported, sessions, liveStreams, recorderState, onstop,
                   stopQueued, activeTimers, starts, produced>>
    /\ UNCHANGED nonRecorderVars

Mount ==
    /\ ~mounted
    /\ mounted' = TRUE
    /\ last' = [op |-> "Mount", outcome |-> "none"]
    /\ UNCHANGED <<recorderVars, title, isProcessing, audioUrl, toasts, browserVars,
                   starts, unmounts, produced, received>>
    /\ UNCHANGED nonRecorderVars

Next ==
    \/ handleRecord
    \/ \E error \in GetUserMediaErrors : startRecordingRejected(error)
    \/ startRecordingCtorThrows
    \/ startRecordingStarted
    \/ \E error \in GetUserMediaErrors : staleStartRejected(error)
    \/ staleStartCtorThrows
    \/ staleStartStarted
    \/ \E timer \in activeTimers : updateDuration(timer)
    \/ \E d \in ClockDeltas : Advance(d)
    \/ \E rec \in 1..sessions, size \in {0, 1} : ondataavailable(rec, size)
    \/ pauseRecording
    \/ handleStop
    \/ \E rec \in stopQueued, size \in {0, 1} : recorderStopTask(rec, size)
    \/ stopRecordingWhenIdle
    \/ pauseRecordingWhenIdle
    \/ handleDiscard
    \/ Unmount
    \/ Mount

Spec == Init /\ [][Next]_vars


(***************************************************************************)
(* Properties of the recorder, checked under Spec.                         *)
(***************************************************************************)
StartFailed == last.op = "startRecording" /\ last.outcome # "started"

DocumentedReasons == {MsgDenied, MsgNotFound, MsgUnsupported}

\* C2 as stated: after every startRecording() the recorder is either Recording
\* with the counter started from 00:00, or Idle with one of the three
\* documented reasons on display.
C2_ThreeReasonsOrRecording ==
    last.op = "startRecording" =>
        \/ /\ last.outcome = "started"
           /\ isRecording /\ ~isPaused /\ duration = ZeroDuration
           /\ intervalRef \in activeTimers
        \/ /\ last.outcome # "started"
           /\ ~isRecording
           /\ intervalRef = NoRef
           /\ toast.description \in DocumentedReasons

\* The message each failure is reported with.
ReasonFor(outcome) ==
    CASE outcome = "NotAllowedError" -> MsgDenied
      [] outcome = "NotFoundError" -> MsgNotFound
      [] outcome \in {"NotSupportedError", "ctorThrows"} -> MsgUnsupported
      [] OTHER -> MsgGeneric

\* C2: a startRecording() that succeeds leaves the recorder Recording,
\* not paused, with the display at 00:00, a new interval running and no toast;
\* one that fails starts no interval, leaves isRecording and isPaused as they
\* were, and shows exactly one toast: the permission, device or support message
\* for NotAllowedError, NotFoundError and NotSupportedError, pairwise distinct,
\* and the generic "Failed to start recording" message for anything else.
C2_StartOutcome ==
    [][last'.op = "startRecording" =>
        IF last'.outcome = "started"
        THEN /\ isRecording' /\ ~isPaused' /\ duration' = ZeroDuration
             /\ startTimeRef' = now'
             /\ intervalRef' \in activeTimers' \ activeTimers
             /\ toastCount' = toastCount
        ELSE /\ isRecording' = isRecording /\ isPaused' = isPaused
             /\ intervalRef' = intervalRef /\ activeTimers' = activeTimers
             /\ toastCount' = toastCount + 1
             /\ toast'.title = "Recording Error"
             /\ toast'.description = ReasonFor(last'.outcome)
             /\ Cardinality(DocumentedReasons \cup {MsgGeneric}) = 4]_vars

\* a start has failed for a missing device and says so, the recorder being Idle
C2_Witness ==
    /\ last = [op |-> "startRecording", outcome |-> "NotFoundError"]
    /\ toast.description = MsgNotFound
    /\ ~isRecording

(***************************************************************************)
(* Reading a duration display back: digits, a colon, two digits.           *)
(***************************************************************************)
DigitValue(c) == CHOOSE i \in 0..9 : Digits[i + 1] = c

RECURSIVE NumberValue(_)
NumberValue(s) == IF s = <<>> THEN 0
                  ELSE 10 * NumberValue(SubSeq(s, 1, Len(s) - 1)) + DigitValue(s[Len(s)])

IsDigit(c) == \E i \in 1..10 : Digits[i] = c

IsMMSS(d) ==
    /\ Len(d) >= 5
    /\ d[Len(d) - 2] = ":"
    /\ \A i \in 1..Len(d) : i # Len(d) - 2 => IsDigit(d[i])
    /\ NumberValue(SubSeq(d, Len(d) - 1, Len(d))) < 60

DisplayedSeconds(d) ==
    60 * NumberValue(SubSeq(d, 1, Len(d) - 3)) + NumberValue(SubSeq(d, Len(d) - 1, Len(d)))

\* C7: at every run of the interval callback the display is a zero-padded
\* MM:SS whose value is the whole number of seconds of wall-clock time since
\* the session started (paused time included), and while a session lasts,
\* through any pause and resume, the displayed value never decreases.
C7_DisplayIsElapsed ==
    [][/\ last'.op = "updateDuration" =>
            /\ IsMMSS(duration')
            /\ 1000 * DisplayedSeconds(duration') <= now' - startTimeRef'
            /\ now' - startTimeRef' < 1000 * (DisplayedSeconds(duration') + 1)
       /\ (isRecording /\ isRecording' /\ startTimeRef' = startTimeRef) =>
            DisplayedSeconds(duration') >= DisplayedSeconds(duration)]_vars

\* the callback has run 65.9 s into a recording that is not paused
C7_Witness ==
    /\ last.op = "updateDuration"
    /\ isRecording /\ ~isPaused
    /\ now - startTimeRef = 65900
    /\ duration = <<"0", "1", ":", "0", "5">>

\* C8: pause and resume leave the MediaRecorder, the stream and the chunk
\* buffer as they are, a resume puts the recorder back in Recording, the
\* buffer always holds exactly the bytes received since the start, in order,
\* and the blob made at stop is their concatenation.
C8_PauseKeepsCapture ==
    [][/\ last'.op = "pauseRecording" =>
            /\ mediaRecorderRef' = mediaRecorderRef
            /\ streamRef' = streamRef
            /\ liveStreams' = liveStreams
            /\ chunksRef' = chunksRef
            /\ (last'.outcome = "resumed" =>
                    /\ isPaused /\ isRecording' /\ ~isPaused'
                    /\ recorderState'[mediaRecorderRef'] = "recording")
       /\ Concat(chunksRef') = received'
       /\ last'.op = "onstop" => audioBlob' = SomeBlob(received')]_vars

\* a recording with data in its buffer has just been resumed
C8_Witness ==
    /\ last = [op |-> "pauseRecording", outcome |-> "resumed"]
    /\ Len(received) >= 1
    /\ Concat(chunksRef) = received
    /\ recorderState[mediaRecorderRef] = "recording"

SessionEnded ==
    \/ last.op = "onstop"
    \/ last = [op |-> "handleDiscard", outcome |-> "recording"]
    \/ last = [op |-> "Unmount", outcome |-> "recording"]

\* C9: once stop, discard during a recording, or teardown has run, no stream
\* acquired by start() has a live track.
C9_StreamReleased == SessionEnded => liveStreams = {}

\* C10: once stop, discard during a recording, or teardown has run, no interval
\* is running, and after the start of a session the only interval running is
\* the one of that session.
C10_TimerCancelled ==
    /\ SessionEnded => activeTimers = {}
    /\ last = [op |-> "startRecording", outcome |-> "started"] => activeTimers = {intervalRef}

StopFired == last'.op = "onstop" /\ last'.outcome = "stop"

\* C11: a stopRecording() called while the recorder is recording or paused
\* stops it and queues its stop event with the handler of the call; when that
\* event fires, the stored blob is the concatenation of the buffered chunks,
\* the stream and the interval the hook holds are released and forgotten (so
\* that nothing is left when no other start overlapped), the recorder is
\* neither recording nor paused, and the call resolves with a URL.
C11_StopFinalizes ==
    [][/\ (last'.op = "handleStop" /\ mediaRecorderRef # NoRef
              /\ recorderState[mediaRecorderRef] \in {"recording", "paused"}) =>
            /\ mediaRecorderRef \in stopQueued'
            /\ recorderState'[mediaRecorderRef] = "inactive"
            /\ onstop'[mediaRecorderRef] = "stop"
       /\ StopFired =>
            /\ audioBlob' = SomeBlob(Concat(chunksRef'))
            /\ Concat(chunksRef') = received'
            /\ streamRef' = NoRef
            /\ streamRef \notin liveStreams'
            /\ liveStreams \subseteq {streamRef} => liveStreams' = {}
            /\ intervalRef' = NoRef
            /\ intervalRef \notin activeTimers'
            /\ activeTimers \subseteq {intervalRef} => activeTimers' = {}
            /\ ~isRecording' /\ ~isPaused'
            /\ audioUrl' # NoRef]_vars

\* a recording that was paused has been stopped: two chunks in the blob,
\* nothing left running
C11_Witness ==
    /\ last = [op |-> "onstop", outcome |-> "stop"]
    /\ audioBlob = SomeBlob(<<1, 2>>)
    /\ audioUrl # NoRef
    /\ liveStreams = {}
    /\ activeTimers = {}
    /\ ~isRecording /\ ~isPaused

\* C12: a stopRecording() called while there is no recorder or isRecording is
\* false returns null and leaves the hook's state, the streams, the recorders
\* and the intervals as they are.
C12_StopWhenIdleIsNoOp ==
    [][(last'.op \in {"stopRecording", "handleStop"}
           /\ (mediaRecorderRef = NoRef \/ ~isRecording)) =>
          /\ last'.outcome = "null"
          /\ UNCHANGED recorderVars
          /\ UNCHANGED <<liveStreams, activeTimers, recorderState, onstop, stopQueued>>]_vars

\* stopRecording() was called after a recording had been stopped: the blob
\* of that recording is still stored
C12_Witness ==
    /\ last = [op |-> "stopRecording", outcome |-> "null"]
    /\ audioBlob # NoBlob
    /\ mediaRecorderRef # NoRef
    /\ ~isRecording

\* C13: pauseRecording() moves a recorder that is recording to Paused and one
\* that is paused back to Recording, changes nothing when no recording is in
\* progress, and the hook is never paused while not recording.
C13_PauseToggles ==
    /\ [](isPaused => isRecording)
    /\ [][last'.op = "pauseRecording" =>
            /\ isRecording' = isRecording
            /\ (isRecording /\ mediaRecorderRef # NoRef
                    /\ recorderState[mediaRecorderRef] # "inactive") =>
                   /\ isPaused' = ~isPaused
                   /\ recorderState'[mediaRecorderRef]
                          = IF isPaused THEN "recording" ELSE "paused"
            /\ (~isRecording \/ mediaRecorderRef = NoRef
                    \/ recorderState[mediaRecorderRef] = "inactive") =>
                   /\ isPaused' = isPaused
                   /\ recorderState' = recorderState]_vars

\* pauseRecording() was called on a stopped recorder and changed nothing
C13_Witness ==
    /\ last = [op |-> "pauseRecording", outcome |-> "ignored"]
    /\ ~isRecording /\ ~isPaused
    /\ mediaRecorderRef # NoRef



(***************************************************************************)
(* The text of a model reply is a sequence of tokens: an opening fence     *)
(* with the tag json ("fence_json"), three bare backticks ("fence"), a     *)
(* newline, a space, prose, or a complete JSON text, which carries the     *)
(* value it denotes.                                                       *)
(***************************************************************************)
Tok(k) == [k |-> k, v |-> Undefined]
JsonTok(value) == [k |-> "json", v |-> value]
Text(tokens) == [t |-> "text", v |-> tokens]

IsTextTruthy(x) == x.t = "text" /\ x.v # <<>>

\* content.replace(/```json\n?|\n?```/g, ''), analyze-recording line 87.  At a
\* newline that precedes "fence_json" the first alternative does not match and
\* the second takes the newline and the three backticks, leaving "json".
RECURSIVE stripFences(_)
stripFences(ts) ==
    IF ts = <<>> THEN <<>>
    ELSE IF ts[1].k = "fence_json"
         THEN IF Len(ts) >= 2 /\ ts[2].k = "nl"
              THEN stripFences(SubSeq(ts, 3, Len(ts)))
              ELSE stripFences(Tail(ts))
    ELSE IF ts[1].k = "nl" /\ Len(ts) >= 2 /\ ts[2].k = "fence"
         THEN stripFences(SubSeq(ts, 3, Len(ts)))
    ELSE IF ts[1].k = "nl" /\ Len(ts) >= 2 /\ ts[2].k = "fence_json"
         THEN <<Tok("prose")>> \o stripFences(SubSeq(ts, 3, Len(ts)))
    ELSE IF ts[1].k = "fence"
         THEN stripFences(Tail(ts))
    ELSE <<ts[1]>> \o stripFences(Tail(ts))

IsSpace(tok) == tok.k \in {"nl", "sp"}

\* String.prototype.trim
RECURSIVE trim(_)
trim(ts) ==
    IF ts = <<>> THEN <<>>
    ELSE IF IsSpace(ts[1]) THEN trim(Tail(ts))
    ELSE IF IsSpace(ts[Len(ts)]) THEN trim(SubSeq(ts, 1, Len(ts) - 1))
    ELSE ts

\* JSON.parse: the value of a single JSON text, a SyntaxError for anything else
JSONparse(ts) ==
    IF Len(ts) = 1 /\ ts[1].k = "json"
    THEN [ok |-> TRUE, value |-> ts[1].v]
    ELSE [ok |-> FALSE, value |-> Undefined]

\* result.candidates?.[0]?.content?.parts?.[0]?.text, line 79
candidateText(result) ==
    Get(At(Get(Get(At(Get(result, "candidates"), 0), "content"), "parts"), 0), "text")

(***************************************************************************)
(* analyze-recording/index.ts                                              *)
(***************************************************************************)
\* the fallback with the fields of the error stub of lines 117-122
FallbackAnalysisStub ==
    Obj([summary |-> Str("Analysis failed"),
         keyPoints |-> Arr(<<>>),
         sentiment |-> Str("neutral"),
         tags |-> Arr(<<>>),
         highlights |-> Arr(<<>>),
         actionItems |-> Arr(<<>>)])

\* lines 94-101
FallbackAnalysis ==
    Obj([summary |-> Str("Analysis could not be completed due to parsing error"),
         keyPoints |-> Arr(<<Str("Raw transcription available")>>),
         sentiment |-> Str("neutral"),
         tags |-> Arr(<<Str("transcription")>>),
         highlights |-> Arr(<<>>),
         actionItems |-> Arr(<<>>)])

HttpResponse(status, body, fetched) ==
    [t |-> "response", status |-> status, body |-> body, fetched |-> fetched]

\* the catch block answering with the error alone
AnalysisErrorOnly(message, fetched) ==
    HttpResponse(500, Obj([error |-> Str(message)]), fetched)

\* the catch block, lines 111-127
AnalysisError(message, fetched) ==
    HttpResponse(500,
                 Obj([error |-> Str(message),
                      summary |-> Str("Analysis failed"),
                      keyPoints |-> Arr(<<>>),
                      sentiment |-> Str("neutral"),
                      tags |-> Arr(<<>>),
                      highlights |-> Arr(<<>>),
                      actionItems |-> Arr(<<>>)]),
                 fetched)

\* lines 79-88: the parse of the candidate text; ok is FALSE where the code throws
parseCandidate(result) ==
    LET content == candidateText(result)
    IN  IF ~IsTextTruthy(content)
        THEN [ok |-> FALSE, value |-> Undefined]
        ELSE JSONparse(trim(stripFences(content.v)))

IsValidAnalysis(x) ==
    /\ Get(x, "sentiment") \in {Str("positive"), Str("neutral"), Str("negative")}
    /\ Get(x, "tags").t = "array"
    /\ Len(Get(x, "tags").v) \in 3..8

\* analyzeRecording with a validation of the parsed value: a value whose
\* sentiment or tags are out of range is replaced by the fallback
analyzeRecordingValidating(method, body, apiKey, reply) ==
    IF method = "OPTIONS" THEN HttpResponse(200, Str("ok"), FALSE)
    ELSE IF ~Truthy(Get(body, "text"))
         THEN AnalysisError("No transcription text provided", FALSE)
    ELSE IF ~Truthy(apiKey)
         THEN AnalysisError("Gemini API key not configured", FALSE)
    ELSE IF reply.kind = "network"
         THEN AnalysisError(reply.text, TRUE)
    ELSE IF ~reply.ok
         THEN AnalysisError("Gemini API error: " \o ToString(reply.status) \o " - " \o reply.text,
                            TRUE)
    ELSE IF parseCandidate(reply.result).ok /\ IsValidAnalysis(parseCandidate(reply.result).value)
         THEN HttpResponse(200, parseCandidate(reply.result).value, TRUE)
    ELSE HttpResponse(200, FallbackAnalysis, TRUE)

\* the handler, lines 9-129, for a request whose body is a JSON object
analyzeRecording(method, body, apiKey, reply) ==
    IF method = "OPTIONS" THEN HttpResponse(200, Str("ok"), FALSE)
    ELSE IF ~Truthy(Get(body, "text"))
         THEN AnalysisError("No transcription text provided", FALSE)
    ELSE IF ~Truthy(apiKey)
         THEN AnalysisError("Gemini API key not configured", FALSE)
    ELSE IF reply.kind = "network"
         THEN AnalysisError(reply.text, TRUE)
    ELSE IF ~reply.ok
         THEN AnalysisError("Gemini API error: " \o ToString(reply.status) \o " - " \o reply.text,
                            TRUE)
    ELSE IF parseCandidate(reply.result).ok
         THEN HttpResponse(200, parseCandidate(reply.result).value, TRUE)
    ELSE HttpResponse(200, FallbackAnalysis, TRUE)


(***************************************************************************)
(* The requests and the upstream answers the analysis service is checked   *)
(* on.  The generateContent endpoint answers a success with a JSON object; *)
(* its candidates may be absent (a blocked prompt), empty, or without      *)
(* content (a candidate cut off before any part).                          *)
(***************************************************************************)
Sentiments == {"positive", "neutral", "negative", "mixed"}
TagCounts == {0, 2, 3, 8, 9}

TagsOf(n) == Arr([i \in 1..n |-> Str("tag" \o ToString(i))])

AnalysisObject(sentiment, n) ==
    Obj([summary |-> Str("A summary of the recording"),
         keyPoints |-> Arr(<<Str("a key point")>>),
         sentiment |-> Str(sentiment),
         tags |-> TagsOf(n),
         highlights |-> Arr(<<Obj([content |-> Str("a quote"), timestamp |-> Num(12)])>>),
         actionItems |-> Arr(<<>>)])

ModelValues ==
    {AnalysisObject(sentiment, n) : sentiment \in Sentiments, n \in TagCounts}
        \cup {JsNull, Obj(<<>>), Obj([summary |-> Str("only a summary")])}

CandidateTexts ==
    UNION {{ <<JsonTok(value)>>,
             <<Tok("fence_json"), Tok("nl"), JsonTok(value), Tok("nl"), Tok("fence")>>,
             <<Tok("fence"), Tok("nl"), JsonTok(value), Tok("nl"), Tok("fence")>>,
             <<Tok("nl"), Tok("fence_json"), Tok("nl"), JsonTok(value), Tok("nl"), Tok("fence")>>,
             <<Tok("prose"), Tok("nl"), JsonTok(value)>>,
             <<Tok("sp"), JsonTok(value), Tok("nl")>> } : value \in ModelValues}
        \cup {<<>>, <<Tok("prose")>>, <<Tok("fence_json"), Tok("nl"), Tok("fence")>>}

Envelope(text) ==
    Obj([candidates |-> Arr(<<Obj([content |-> Obj([parts |-> Arr(<<Obj([text |-> text])>>)])])>>)])

GeminiResults ==
    {Envelope(Text(tokens)) : tokens \in CandidateTexts}
        \cup {Obj([promptFeedback |-> Obj([blockReason |-> Str("SAFETY")])]),
              Obj([candidates |-> Arr(<<>>)]),
              Obj([candidates |-> Arr(<<Obj([finishReason |-> Str("MAX_TOKENS")])>>)])}

GeminiReplies ==
    {[kind |-> "http", ok |-> TRUE, status |-> 200, text |-> "", result |-> result] :
        result \in GeminiResults}
        \cup {[kind |-> "http", ok |-> FALSE, status |-> 429, text |-> "quota exceeded",
               result |-> Undefined],
              [kind |-> "http", ok |-> FALSE, status |-> 503, text |-> "overloaded",
               result |-> Undefined],
              [kind |-> "network", ok |-> FALSE, status |-> 0, text |-> "error sending request",
               result |-> Undefined]}

AnalyzeBodies ==
    {Obj(<<>>), Obj([text |-> Str("")]), Obj([text |-> Str("Hello, this is a test recording")])}

ApiKeys == {Undefined, Str("key")}

InitAnalyze ==
    /\ HookInit
    /\ ComponentInit
    /\ BrowserInit
    /\ webmSupported = TRUE
    /\ reqMethod \in {"POST", "OPTIONS"}
    /\ reqBody \in AnalyzeBodies
    /\ geminiApiKey \in ApiKeys
    /\ geminiReply \in GeminiReplies
    /\ httpResponse = Undefined
    /\ fetchCount = 0
    /\ SaveIdle
    /\ BackendEmpty
    /\ ViewsInit

\* serve(), lines 9-129: one request is answered
serveAnalyze ==
    /\ httpResponse = Undefined
    /\ httpResponse' = analyzeRecording(reqMethod, reqBody, geminiApiKey, geminiReply)
    /\ fetchCount' = fetchCount + (IF httpResponse'.fetched THEN 1 ELSE 0)
    /\ UNCHANGED <<reqMethod, reqBody, geminiApiKey, geminiReply>>
    /\ UNCHANGED <<recorderVars, componentVars, toasts, browserVars, historyVars,
                   saveVars, backendVars, viewVars>>

NextAnalyze == serveAnalyze

SpecAnalyze == InitAnalyze /\ [][NextAnalyze]_vars

(***************************************************************************)
(* Properties of the analysis service, checked under SpecAnalyze.          *)
(***************************************************************************)
Answered == httpResponse.t = "response"

\* the request reached the endpoint and the endpoint answered with a success
UpstreamSucceeded ==
    /\ reqMethod = "POST"
    /\ Truthy(Get(reqBody, "text"))
    /\ Truthy(geminiApiKey)
    /\ geminiReply.kind = "http"
    /\ geminiReply.ok

\* C3: when the endpoint answers with a success whose candidate text is
\* missing, empty, or no JSON text once the fences are stripped, the response
\* is a 200 carrying the fixed fallback object.
C3_FallbackOnParseFailure ==
    (Answered /\ UpstreamSucceeded /\ ~parseCandidate(geminiReply.result).ok) =>
        /\ httpResponse.status = 200
        /\ Get(httpResponse.body, "summary")
               = Str("Analysis could not be completed due to parsing error")
        /\ Get(httpResponse.body, "sentiment") = Str("neutral")
        /\ Get(httpResponse.body, "tags") = Arr(<<Str("transcription")>>)
        /\ Get(httpResponse.body, "highlights") = Arr(<<>>)
        /\ Get(httpResponse.body, "actionItems") = Arr(<<>>)

\* a reply of prose only has been answered with the fallback
C3_Witness ==
    /\ Answered /\ UpstreamSucceeded
    /\ candidateText(geminiReply.result) = Text(<<Tok("prose")>>)
    /\ httpResponse.status = 200
    /\ httpResponse.body = FallbackAnalysis

\* C4 as stated: every 200 answer to a POST has a sentiment among the three
\* values and between 3 and 8 tags.
C4_ValidatedOutput ==
    (Answered /\ reqMethod = "POST" /\ httpResponse.status = 200) =>
        IsValidAnalysis(httpResponse.body)

\* C4: every 200 answer to a POST is either the value the candidate
\* text parses to, unchanged, or, when there is no such value, the fallback
\* object, whose sentiment is neutral and which has the single tag
\* "transcription"; so the answer has a sentiment among the three values and 3
\* to 8 tags exactly when the parsed upstream value has.
C4_PassThroughOrFallback ==
    (Answered /\ reqMethod = "POST" /\ httpResponse.status = 200) =>
        LET parsed == parseCandidate(geminiReply.result)
        IN  /\ parsed.ok => httpResponse.body = parsed.value
            /\ ~parsed.ok =>
                  /\ Get(httpResponse.body, "sentiment") = Str("neutral")
                  /\ Get(httpResponse.body, "tags") = Arr(<<Str("transcription")>>)
            /\ IsValidAnalysis(httpResponse.body) <=>
                  (parsed.ok /\ IsValidAnalysis(parsed.value))

\* a 200 answer carries the sentiment "mixed" and nine tags of the upstream value
C4_Witness ==
    /\ Answered /\ reqMethod = "POST" /\ httpResponse.status = 200
    /\ Get(httpResponse.body, "sentiment") = Str("mixed")
    /\ Get(httpResponse.body, "tags") = TagsOf(9)


(***************************************************************************)
(* transcribe-audio/index.ts.  The base64 audio of a request is known by   *)
(* its length only.                                                        *)
(***************************************************************************)
MaxAudioLength == 10000000

Base64(length) == [t |-> "base64", v |-> length]

\* HasAudio as a test of the property's presence: the empty string passes
HasAudioProperty(body) == Get(body, "audio").t = "base64"

\* !audio, line 19: a missing property or the empty string
HasAudio(body) == Get(body, "audio").t = "base64" /\ Get(body, "audio").v > 0

\* the catch block answering in the shape of lines 73-83
TranscriptionErrorWithDetails(message, fetched) ==
    HttpResponse(500,
                 Obj([error |-> Str(message), details |-> Str(""), gemini_status |-> Num(500)]),
                 fetched)

\* the catch block, lines 106-120; the timestamp is whatever the clock says
TranscriptionError(message, fetched) ==
    HttpResponse(500,
                 Obj([error |-> Str(message), type |-> Str("Error"),
                      timestamp |-> Str("toISOString")]),
                 fetched)

\* transcribeAudio without the length check of lines 32-35: audio of any
\* length is passed on to the upstream endpoint
transcribeAudioAnyLength(method, body, apiKey, reply) ==
    IF method = "OPTIONS" THEN HttpResponse(200, Str("ok"), FALSE)
    ELSE IF ~HasAudio(body)
         THEN TranscriptionError("No audio data provided", FALSE)
    ELSE IF ~Truthy(apiKey)
         THEN TranscriptionError("Gemini API key not configured", FALSE)
    ELSE IF reply.kind = "network"
         THEN TranscriptionError(reply.text, TRUE)
    ELSE IF ~reply.ok
         THEN HttpResponse(500,
                           Obj([error |-> Str("Gemini API error: " \o ToString(reply.status)),
                                details |-> Str(reply.text),
                                gemini_status |-> Num(reply.status)]),
                           TRUE)
    ELSE IF ~IsTextTruthy(candidateText(reply.result))
         THEN TranscriptionError("No transcription text returned from Gemini", TRUE)
    ELSE HttpResponse(200,
                      Obj([text |-> Text(trim(candidateText(reply.result).v)),
                           language |-> Str("auto-detected")]),
                      TRUE)

\* the handler, lines 9-122, for a request whose body is a JSON object
transcribeAudio(method, body, apiKey, reply) ==
    IF method = "OPTIONS" THEN HttpResponse(200, Str("ok"), FALSE)
    ELSE IF ~HasAudio(body)
         THEN TranscriptionError("No audio data provided", FALSE)
    ELSE IF ~Truthy(apiKey)
         THEN TranscriptionError("Gemini API key not configured", FALSE)
    ELSE IF Get(body, "audio").v > MaxAudioLength
         THEN TranscriptionError("Audio file too large. Please use shorter recordings.", FALSE)
    ELSE IF reply.kind = "network"
         THEN TranscriptionError(reply.text, TRUE)
    ELSE IF ~reply.ok
         THEN HttpResponse(500,
                           Obj([error |-> Str("Gemini API error: " \o ToString(reply.status)),
                                details |-> Str(reply.text),
                                gemini_status |-> Num(reply.status)]),
                           TRUE)
    ELSE IF ~IsTextTruthy(candidateText(reply.result))
         THEN TranscriptionError("No transcription text returned from Gemini", TRUE)
    ELSE HttpResponse(200,
                      Obj([text |-> Text(trim(candidateText(reply.result).v)),
                           language |-> Str("auto-detected")]),
                      TRUE)

(***************************************************************************)
(* supabase.functions.invoke as the component sees it: the parsed body of  *)
(* a 2xx response with a null error, or null data with an error for any    *)
(* other status and for a request that did not get through.                *)
(***************************************************************************)
InvokeHttpError == [message |-> "Edge Function returned a non-2xx status code"]
InvokeFetchError == [message |-> "Failed to send a request to the Edge Function"]
NoError == [message |-> ""]

invoke(reachable, response) ==
    IF ~reachable THEN [data |-> JsNull, error |-> InvokeFetchError]
    ELSE IF response.status \in 200..299 THEN [data |-> response.body, error |-> NoError]
    ELSE [data |-> JsNull, error |-> InvokeHttpError]


(***************************************************************************)
(* handleSaveAndTranscribe of the recording interface, as the sequence of  *)
(* its awaits: upload, read as base64, transcribe, analyse, read the       *)
(* duration, insert the recording, look it up, insert the highlights.      *)
(* savePc names the await the run is suspended at.                         *)
(***************************************************************************)
MaxRuns == 2

UserId == "user-1"

AudioLengths == {0, 60, MaxAudioLength + 1}

\* audio.duration at loadedmetadata, in milliseconds; a MediaRecorder webm
\* without a duration header reports Infinity
Infinity == [t |-> "infinity"]
AudioDurations == {Num(65400), Infinity}

TranscribeReplies ==
    {[kind |-> "http", ok |-> TRUE, status |-> 200, text |-> "",
      result |-> Envelope(Text(<<Tok("prose"), Tok("nl")>>))],
     [kind |-> "http", ok |-> TRUE, status |-> 200, text |-> "",
      result |-> Envelope(Text(<<Tok("sp")>>))],
     [kind |-> "http", ok |-> TRUE, status |-> 200, text |-> "",
      result |-> Obj([candidates |-> Arr(<<>>)])],
     [kind |-> "http", ok |-> FALSE, status |-> 503, text |-> "overloaded",
      result |-> Undefined],
     [kind |-> "network", ok |-> FALSE, status |-> 0, text |-> "error sending request",
      result |-> Undefined]}

AnalyzeReplies ==
    {[kind |-> "http", ok |-> TRUE, status |-> 200, text |-> "",
      result |-> Envelope(Text(tokens))] :
        tokens \in {<<JsonTok(AnalysisObject("positive", 3))>>,
                    <<JsonTok(Obj([sentiment |-> Str("mixed")]))>>,
                    <<JsonTok(JsNull)>>,
                    <<Tok("prose")>>}}
        \cup {[kind |-> "http", ok |-> FALSE, status |-> 503, text |-> "overloaded",
               result |-> Undefined]}

\* `${user.id}/${Date.now()}.webm`, line 62
FileName(user, stamp) == [user |-> user, stamp |-> stamp]

\* storage getPublicUrl, lines 70-72
getPublicUrl(name) == [bucket |-> "recordings", path |-> name]

\* lines 126-131
formatDuration(d) ==
    IF d.t = "infinity" THEN <<"Infinity", ":", "NaN">>
    ELSE LET durationSeconds == d.v \div 1000
         IN  padStart2(toString(durationSeconds \div 60)) \o <<":">>
                 \o padStart2(toString(durationSeconds % 60))

floorSeconds(d) == IF d.t = "infinity" THEN d ELSE Num(d.v \div 1000)

SavedToast ==
    [title |-> "Recording Saved!",
     description |-> "Your recording has been transcribed and analyzed successfully."]
ProcessingErrorToast(message) == [title |-> "Processing Error", description |-> message]
SaveErrorToast ==
    [title |-> "Save Error", description |-> "Failed to save recording. Please try again."]
GenericProcessingMessage == "Failed to process recording. Please try again."

\* lines 184-199: the inner catch and its finally
Fail(message) ==
    /\ toast' = ProcessingErrorToast(message)
    /\ toastCount' = toastCount + 1
    /\ isProcessing' = FALSE
    /\ savePc' = "idle"
    /\ UNCHANGED <<audioUrl, title, savedEvents>>

\* lines 173-182 and 197-199: toast, event, handleDiscard, finally
Finish ==
    /\ toast' = SavedToast
    /\ toastCount' = toastCount + 1
    /\ savedEvents' = savedEvents + 1
    /\ audioUrl' = NoRef
    /\ title' = DefaultTitle
    /\ isProcessing' = FALSE
    /\ savePc' = "idle"

\* lines 56-68: the guard, setIsProcessing(true), the file name, the upload request
handleSaveAndTranscribe ==
    /\ mounted /\ audioUrl # NoRef /\ ~isProcessing
    /\ savePc = "idle"
    /\ runs < MaxRuns
    /\ audioBlob # NoBlob
    /\ isProcessing' = TRUE
    /\ fileName' = FileName(UserId, now)
    /\ transcriptionData' = Undefined
    /\ analysisData' = Undefined
    /\ pendingRow' = Undefined
    /\ lastInvoke' = Undefined
    /\ rowsBefore' = recordings
    /\ runs' = runs + 1
    /\ savePc' = "upload"
    /\ last' = [op |-> "handleSaveAndTranscribe", outcome |-> "started"]
    /\ UNCHANGED <<viewVars, recorderVars, title, audioUrl, mounted, toasts, browserVars, serviceVars,
                   base64Length, savedEvents, backendVars, starts, unmounts, produced,
                   received>>

\* uploadDone with the upload sent again after a refusal
uploadDoneRetrying(accepted) ==
    /\ savePc = "upload"
    /\ IF accepted /\ fileName \notin storageObjects
       THEN /\ storageObjects' = storageObjects \cup {fileName}
            /\ savePc' = "read"
            /\ now' = now + 1
            /\ last' = [op |-> "uploadDone", outcome |-> "ok"]
            /\ UNCHANGED <<toasts, isProcessing>>
       ELSE /\ last' = [op |-> "uploadDone", outcome |-> "failed"]
            /\ UNCHANGED <<toasts, isProcessing, savePc, storageObjects, now>>
    /\ UNCHANGED <<viewVars, recorderVars, title, audioUrl, mounted, webmSupported, pendingStarts,
                   stalePending, sessions, liveStreams, recorderState, onstop, stopQueued,
                   activeTimers, orphans, serviceVars, fileName, base64Length,
                   transcriptionData, analysisData, pendingRow, savedEvents, runs, rowsBefore,
                   lastInvoke, recordings, highlights, starts, unmounts, produced, received>>

\* lines 64-68 and 204-212: the upload settles; a name that is already in the
\* bucket is refused because upload is called without upsert
uploadDone(accepted) ==
    /\ savePc = "upload"
    /\ IF accepted /\ fileName \notin storageObjects
       THEN /\ storageObjects' = storageObjects \cup {fileName}
            /\ savePc' = "read"
            /\ now' = now + 1
            /\ last' = [op |-> "uploadDone", outcome |-> "ok"]
            /\ UNCHANGED <<toasts, isProcessing>>
       ELSE /\ toast' = SaveErrorToast
            /\ toastCount' = toastCount + 1
            /\ isProcessing' = FALSE
            /\ savePc' = "idle"
            /\ last' = [op |-> "uploadDone", outcome |-> "failed"]
            /\ UNCHANGED <<storageObjects, now>>
    /\ UNCHANGED <<viewVars, recorderVars, title, audioUrl, mounted, webmSupported, pendingStarts,
                   stalePending, sessions, liveStreams, recorderState, onstop, stopQueued,
                   activeTimers, orphans, serviceVars, fileName, base64Length,
                   transcriptionData, analysisData, pendingRow, savedEvents, runs, rowsBefore,
                   lastInvoke, recordings, highlights, starts, unmounts, produced, received>>

\* lines 75-87: reader.onloadend resolves and the transcription request goes out
onloadend ==
    /\ savePc = "read"
    /\ savePc' = "transcribe"
    /\ last' = [op |-> "onloadend", outcome |-> "ok"]
    /\ UNCHANGED <<viewVars, recorderVars, componentVars, toasts, browserVars, serviceVars, fileName,
                   base64Length, transcriptionData, analysisData, pendingRow, savedEvents, runs,
                   rowsBefore, lastInvoke, backendVars, starts, unmounts, produced, received>>

\* transcribeDone without the throw for a response that has no text and no
\* error: the run goes on to the analysis as it does for a missing summary
transcribeDoneLenient(reachable, apiKey, reply) ==
    /\ savePc = "transcribe"
    /\ LET response == transcribeAudio("POST", Obj([audio |-> Base64(base64Length)]),
                                       apiKey, reply)
           result == invoke(reachable, response)
       IN  /\ lastInvoke' = [data |-> result.data, error |-> result.error,
                           response |-> IF reachable THEN response ELSE Undefined]
           /\ IF Truthy(Get(result.data, "text")) \/ result.error = NoError
              THEN /\ transcriptionData' = result.data
                   /\ savePc' = "analyze"
                   /\ last' = [op |-> "transcribeDone", outcome |-> "ok"]
                   /\ UNCHANGED <<toasts, isProcessing, audioUrl, title, savedEvents>>
              ELSE /\ Fail("Transcription failed: " \o result.error.message)
                   /\ last' = [op |-> "transcribeDone", outcome |-> "failed"]
                   /\ UNCHANGED transcriptionData
    /\ UNCHANGED <<viewVars, recorderVars, mounted, browserVars, serviceVars, fileName, base64Length,
                   analysisData, pendingRow, runs, rowsBefore, backendVars, starts, unmounts,
                   produced, received>>

\* lines 83-98: the invoke of transcribe-audio settles
transcribeDone(reachable, apiKey, reply) ==
    /\ savePc = "transcribe"
    /\ LET response == transcribeAudio("POST", Obj([audio |-> Base64(base64Length)]),
                                       apiKey, reply)
           result == invoke(reachable, response)
       IN  /\ lastInvoke' = [data |-> result.data, error |-> result.error,
                           response |-> IF reachable THEN response ELSE Undefined]
           /\ IF Truthy(Get(result.data, "text"))
              THEN /\ transcriptionData' = result.data
                   /\ savePc' = "analyze"
                   /\ last' = [op |-> "transcribeDone", outcome |-> "ok"]
                   /\ UNCHANGED <<toasts, isProcessing, audioUrl, title, savedEvents>>
              ELSE /\ IF result.error # NoError
                      THEN Fail("Transcription failed: " \o result.error.message)
                      ELSE Fail("No transcription text received from the API")
                   /\ last' = [op |-> "transcribeDone", outcome |-> "failed"]
                   /\ UNCHANGED transcriptionData
    /\ UNCHANGED <<viewVars, recorderVars, mounted, browserVars, serviceVars, fileName, base64Length,
                   analysisData, pendingRow, runs, rowsBefore, backendVars, starts, unmounts,
                   produced, received>>

\* analyzeDone with a throw in the last branch of lines 110-117: a response
\* with neither a summary nor an error ends the run
analyzeDoneStrict(reachable, apiKey, reply) ==
    /\ savePc = "analyze"
    /\ LET response == analyzeRecording("POST",
                                        Obj([text |-> Get(transcriptionData, "text")]),
                                        apiKey, reply)
           result == invoke(reachable, response)
       IN  /\ lastInvoke' = [data |-> result.data, error |-> result.error,
                           response |-> IF reachable THEN response ELSE Undefined]
           /\ IF Truthy(Get(result.data, "summary"))
              THEN /\ analysisData' = result.data
                   /\ savePc' = "duration"
                   /\ last' = [op |-> "analyzeDone",
                               outcome |-> IF Truthy(Get(result.data, "summary"))
                                           THEN "ok" ELSE "continued"]
                   /\ UNCHANGED <<toasts, isProcessing, audioUrl, title, savedEvents>>
              ELSE /\ Fail("Analysis failed: " \o result.error.message)
                   /\ last' = [op |-> "analyzeDone", outcome |-> "failed"]
                   /\ UNCHANGED analysisData
    /\ UNCHANGED <<viewVars, recorderVars, mounted, browserVars, serviceVars, fileName, base64Length,
                   transcriptionData, pendingRow, runs, rowsBefore, backendVars, starts,
                   unmounts, produced, received>>

\* lines 100-117: the invoke of analyze-recording settles; the duration of the
\* recording is then requested from an Audio element (119-124)
analyzeDone(reachable, apiKey, reply) ==
    /\ savePc = "analyze"
    /\ LET response == analyzeRecording("POST",
                                        Obj([text |-> Get(transcriptionData, "text")]),
                                        apiKey, reply)
           result == invoke(reachable, response)
       IN  /\ lastInvoke' = [data |-> result.data, error |-> result.error,
                           response |-> IF reachable THEN response ELSE Undefined]
           /\ IF Truthy(Get(result.data, "summary")) \/ result.error = NoError
              THEN /\ analysisData' = result.data
                   /\ savePc' = "duration"
                   /\ last' = [op |-> "analyzeDone",
                               outcome |-> IF Truthy(Get(result.data, "summary"))
                                           THEN "ok" ELSE "continued"]
                   /\ UNCHANGED <<toasts, isProcessing, audioUrl, title, savedEvents>>
              ELSE /\ Fail("Analysis failed: " \o result.error.message)
                   /\ last' = [op |-> "analyzeDone", outcome |-> "failed"]
                   /\ UNCHANGED analysisData
    /\ UNCHANGED <<viewVars, recorderVars, mounted, browserVars, serviceVars, fileName, base64Length,
                   transcriptionData, pendingRow, runs, rowsBefore, backendVars, starts,
                   unmounts, produced, received>>

\* title || "Untitled Recording", line 138
titleOrUntitled == IF title = "" THEN "Untitled Recording" ELSE title

\* the insert object with the summary in the place of the transcript
RecordingRowSummaryOnly(audioDuration) ==
    [user_id |-> UserId,
     title |-> titleOrUntitled,
     audio_url |-> getPublicUrl(fileName),
     transcription |-> Get(analysisData, "summary"),
     summary |-> Get(analysisData, "summary"),
     sentiment |-> Get(analysisData, "sentiment"),
     tags |-> Get(analysisData, "tags"),
     duration_seconds |-> floorSeconds(audioDuration),
     duration_formatted |-> formatDuration(audioDuration)]

\* the object handed to insert, lines 135-148
RecordingRow(audioDuration) ==
    [user_id |-> UserId,
     title |-> titleOrUntitled,
     audio_url |-> getPublicUrl(fileName),
     transcription |-> Get(transcriptionData, "text"),
     summary |-> Get(analysisData, "summary"),
     sentiment |-> Get(analysisData, "sentiment"),
     tags |-> Get(analysisData, "tags"),
     duration_seconds |-> floorSeconds(audioDuration),
     duration_formatted |-> formatDuration(audioDuration)]

\* lines 119-148: loadedmetadata fires, the duration is formatted and the row
\* is built; reading a property of a null analysisData throws
loadedmetadata(audioDuration) ==
    /\ savePc = "duration"
    /\ IF analysisData.t \in {"null", "undefined"}
       THEN /\ Fail("Cannot read properties of null (reading 'summary')")
            /\ last' = [op |-> "loadedmetadata", outcome |-> "failed"]
            /\ UNCHANGED pendingRow
       ELSE /\ pendingRow' = RecordingRow(audioDuration)
            /\ savePc' = "insert"
            /\ last' = [op |-> "loadedmetadata", outcome |-> "ok"]
            /\ UNCHANGED <<toasts, isProcessing, audioUrl, title, savedEvents>>
    /\ UNCHANGED <<viewVars, recorderVars, mounted, browserVars, serviceVars, fileName, base64Length,
                   transcriptionData, analysisData, runs, rowsBefore, lastInvoke, backendVars,
                   starts, unmounts, produced, received>>

\* lines 123-126: the audio element reports an error for the blob instead of
\* loadedmetadata; the promise has no other way to settle and the handler stays
\* suspended at its await, before the catch and the finally
audioError ==
    /\ savePc = "duration"
    /\ savePc' = "stalled"
    /\ last' = [op |-> "audioError", outcome |-> "stalled"]
    /\ UNCHANGED <<viewVars, recorderVars, componentVars, toasts, browserVars, serviceVars, fileName,
                   base64Length, transcriptionData, analysisData, pendingRow, savedEvents, runs,
                   rowsBefore, lastInvoke, backendVars, starts, unmounts, produced, received>>

InsertErrorMessages == {GenericProcessingMessage, "new row violates row-level security policy"}

\* analysisData.highlights && analysisData.highlights.length > 0, line 153
HasHighlights ==
    Get(analysisData, "highlights").t = "array" /\ Get(analysisData, "highlights").v # <<>>

\* insertDone without the throw of line 150: the run goes on after an insert
\* that was refused
insertDoneUnchecked(accepted, message) ==
    /\ savePc = "insert"
    /\ recordings' = IF accepted THEN Append(recordings, pendingRow) ELSE recordings
    /\ IF HasHighlights
       THEN /\ savePc' = "select"
            /\ UNCHANGED <<toasts, isProcessing, audioUrl, title, savedEvents>>
       ELSE Finish
    /\ last' = [op |-> "insertDone", outcome |-> IF accepted THEN "ok" ELSE "failed"]
    /\ UNCHANGED <<viewVars, recorderVars, mounted, browserVars, serviceVars, fileName, base64Length,
                   transcriptionData, analysisData, pendingRow, runs, rowsBefore, lastInvoke,
                   storageObjects, highlights, starts, unmounts, produced, received>>

\* lines 135-156 and 173-182: the insert settles; with highlights to store the
\* recording is looked up by its audio_url, otherwise the run finishes
insertDone(accepted, message) ==
    /\ savePc = "insert"
    /\ IF ~accepted
       THEN /\ Fail(message)
            /\ last' = [op |-> "insertDone", outcome |-> "failed"]
            /\ UNCHANGED recordings
       ELSE /\ recordings' = Append(recordings, pendingRow)
            /\ IF HasHighlights
               THEN /\ savePc' = "select"
                    /\ UNCHANGED <<toasts, isProcessing, audioUrl, title, savedEvents>>
               ELSE Finish
            /\ last' = [op |-> "insertDone", outcome |-> "ok"]
    /\ UNCHANGED <<viewVars, recorderVars, mounted, browserVars, serviceVars, fileName, base64Length,
                   transcriptionData, analysisData, pendingRow, runs, rowsBefore, lastInvoke,
                   storageObjects, highlights, starts, unmounts, produced, received>>

\* selectDone looking the recording up by its owner and taking the oldest
selectDoneOldestOfUser(reachable) ==
    /\ savePc = "select"
    /\ LET found == {i \in DOMAIN recordings : recordings[i].user_id = UserId}
       IN  IF reachable /\ found # {}
           THEN /\ pendingRow' = [recording_id |-> CHOOSE i \in found : \A o \in found : i <= o,
                                  rest |-> Get(analysisData, "highlights").v]
                /\ savePc' = "highlights"
                /\ UNCHANGED <<toasts, isProcessing, audioUrl, title, savedEvents>>
           ELSE /\ Finish
                /\ UNCHANGED pendingRow
    /\ last' = [op |-> "selectDone", outcome |-> IF reachable THEN "ok" ELSE "failed"]
    /\ UNCHANGED <<viewVars, recorderVars, mounted, browserVars, serviceVars, fileName, base64Length,
                   transcriptionData, analysisData, runs, rowsBefore, lastInvoke, backendVars,
                   starts, unmounts, produced, received>>

\* lines 154-160: select('id').eq('audio_url', publicUrl).single() settles
selectDone(reachable) ==
    /\ savePc = "select"
    /\ LET found == {i \in DOMAIN recordings :
                        recordings[i].audio_url = getPublicUrl(fileName)}
       IN  IF reachable /\ Cardinality(found) = 1
           THEN /\ pendingRow' = [recording_id |-> CHOOSE i \in found : TRUE,
                                  rest |-> Get(analysisData, "highlights").v]
                /\ savePc' = "highlights"
                /\ UNCHANGED <<toasts, isProcessing, audioUrl, title, savedEvents>>
           ELSE /\ Finish
                /\ UNCHANGED pendingRow
    /\ last' = [op |-> "selectDone", outcome |-> IF reachable THEN "ok" ELSE "failed"]
    /\ UNCHANGED <<viewVars, recorderVars, mounted, browserVars, serviceVars, fileName, base64Length,
                   transcriptionData, analysisData, runs, rowsBefore, lastInvoke, backendVars,
                   starts, unmounts, produced, received>>

\* lines 161-169: the one insert of all the highlights settles; its result is
\* not looked at
highlightInserted(accepted) ==
    /\ savePc = "highlights"
    /\ highlights' =
           IF accepted
           THEN highlights \o [k \in DOMAIN pendingRow.rest |->
                                  [recording_id |-> pendingRow.recording_id,
                                   content |-> Get(pendingRow.rest[k], "content"),
                                   timestamp_seconds |-> Get(pendingRow.rest[k], "timestamp")]]
           ELSE highlights
    /\ pendingRow' = [pendingRow EXCEPT !.rest = <<>>]
    /\ Finish
    /\ last' = [op |-> "highlightInserted", outcome |-> IF accepted THEN "ok" ELSE "failed"]
    /\ UNCHANGED <<viewVars, recorderVars, mounted, browserVars, serviceVars, fileName, base64Length,
                   transcriptionData, analysisData, runs, rowsBefore, lastInvoke,
                   storageObjects, recordings, starts, unmounts, produced, received>>

Titles == {DefaultTitle, ""}

\* a recording has just been made and stopped: the state that handleRecord,
\* startRecording, handleStop and the stop task lead to, with the preview shown
InitSave ==
    /\ isRecording = FALSE
    /\ isPaused = FALSE
    /\ duration = ZeroDuration
    /\ audioBlob = SomeBlob(<<1>>)
    /\ mediaRecorderRef = 1
    /\ streamRef = NoRef
    /\ chunksRef = <<<<1>>>>
    /\ startTimeRef = EpochStart
    /\ intervalRef = NoRef
    /\ mounted = TRUE
    /\ title \in Titles
    /\ isProcessing = FALSE
    /\ audioUrl = 1
    /\ toast = NoToast
    /\ toastCount = 0
    /\ now = EpochStart
    /\ webmSupported = TRUE
    /\ pendingStarts = 0
    /\ stalePending = 0
    /\ sessions = 1
    /\ liveStreams = {}
    /\ recorderState = <<"inactive">>
    /\ onstop = <<"stop">>
    /\ stopQueued = {}
    /\ activeTimers = {}
    /\ orphans = {}
    /\ starts = 1
    /\ unmounts = 0
    /\ produced = 1
    /\ received = <<1>>
    /\ last = Idle
    /\ ServiceIdle
    /\ savePc = "idle"
    /\ fileName = Undefined
    /\ base64Length \in AudioLengths
    /\ transcriptionData = Undefined
    /\ analysisData = Undefined
    /\ pendingRow = Undefined
    /\ savedEvents = 0
    /\ runs = 0
    /\ rowsBefore = <<>>
    /\ lastInvoke = Undefined
    /\ BackendEmpty
    /\ ViewsInit

NextSave ==
    \/ handleSaveAndTranscribe
    \/ \E accepted \in BOOLEAN : uploadDone(accepted)
    \/ onloadend
    \/ \E reachable \in BOOLEAN, apiKey \in ApiKeys, reply \in TranscribeReplies :
           transcribeDone(reachable, apiKey, reply)
    \/ \E reachable \in BOOLEAN, apiKey \in ApiKeys, reply \in AnalyzeReplies :
           analyzeDone(reachable, apiKey, reply)
    \/ \E audioDuration \in AudioDurations : loadedmetadata(audioDuration)
    \/ audioError
    \/ \E accepted \in BOOLEAN, message \in InsertErrorMessages : insertDone(accepted, message)
    \/ \E reachable \in BOOLEAN : selectDone(reachable)
    \/ \E accepted \in BOOLEAN : highlightInserted(accepted)
    \* the recorder stays usable meanwhile: another recording can be made
    \/ handleRecord
    \/ startRecordingStarted
    \/ handleStop
    \/ \E rec \in 1..sessions : recorderStopTask(rec, 1)
    \/ handleDiscard

SpecSave == InitSave /\ [][NextSave]_vars

\* the steps by which a suspended run goes on: every request settles, the
\* reader ends its load, the audio element answers with one of its two events
SaveStep ==
    \/ \E accepted \in BOOLEAN : uploadDone(accepted)
    \/ onloadend
    \/ \E reachable \in BOOLEAN, apiKey \in ApiKeys, reply \in TranscribeReplies :
           transcribeDone(reachable, apiKey, reply)
    \/ \E reachable \in BOOLEAN, apiKey \in ApiKeys, reply \in AnalyzeReplies :
           analyzeDone(reachable, apiKey, reply)
    \/ \E audioDuration \in AudioDurations : loadedmetadata(audioDuration)
    \/ audioError
    \/ \E accepted \in BOOLEAN, message \in InsertErrorMessages : insertDone(accepted, message)
    \/ \E reachable \in BOOLEAN : selectDone(reachable)
    \/ \E accepted \in BOOLEAN : highlightInserted(accepted)

SpecSaveFair == InitSave /\ [][NextSave]_vars /\ WF_vars(SaveStep)

TranscriptionFailed ==
    /\ last.op = "transcribeDone"
    /\ \/ lastInvoke.error # NoError
       \/ ~Truthy(Get(lastInvoke.data, "text"))

IsErrorToast == toast.title \in {"Processing Error", "Save Error"}

\* C1: when the transcription request fails or its response carries no text,
\* the run of handleSaveAndTranscribe is over, an error toast is on display
\* and the recordings table is what it was when the run began.
C1_NoRowWithoutTranscript ==
    TranscriptionFailed =>
        /\ savePc = "idle"
        /\ ~isProcessing
        /\ IsErrorToast
        /\ recordings = rowsBefore

C1_Witness ==
    /\ TranscriptionFailed
    /\ lastInvoke.error = NoError
    /\ toast = ProcessingErrorToast("No transcription text received from the API")
    /\ rowsBefore # <<>>

(***************************************************************************)
(* The views over the recordings table.  Strings whose characters matter   *)
(* (titles, transcripts, summaries, tags, the query) are sequences of      *)
(* one-character strings.                                                  *)
(***************************************************************************)
MaxRecordings == 2

Chars(cs) == [t |-> "chars", v |-> cs]

OtherUser == "user-2"

\* a row of the recordings table as select returns it
Row(id, user, titleValue, transcription, summary, sentiment, tags) ==
    [id |-> id, user_id |-> user, title |-> titleValue, transcription |-> transcription,
     summary |-> summary, sentiment |-> sentiment, tags |-> tags]

\* UTF-16 code units of the characters used
CharCode ==
    (" " :> 32) @@ ("-" :> 45) @@ ("B" :> 66) @@ ("E" :> 69) @@ ("T" :> 84) @@ ("a" :> 97)
        @@ ("b" :> 98) @@ ("c" :> 99) @@ ("e" :> 101) @@ ("t" :> 116) @@ ("x" :> 120)

\* String.prototype.toLowerCase on these characters
toLowerCase(cs) ==
    [i \in DOMAIN cs |-> IF CharCode[cs[i]] \in 65..90
                         THEN CHOOSE c \in DOMAIN CharCode : CharCode[c] = CharCode[cs[i]] + 32
                         ELSE cs[i]]

\* String.prototype.includes
includes(cs, sub) ==
    \E i \in 0..(Len(cs) - Len(sub)) : SubSeq(cs, i + 1, i + Len(sub)) = sub

\* String.prototype.trim
RECURSIVE trimStart(_)
trimStart(cs) == IF cs # <<>> /\ Head(cs) = " " THEN trimStart(Tail(cs)) ELSE cs

RECURSIVE trimEnd(_)
trimEnd(cs) ==
    IF cs # <<>> /\ cs[Len(cs)] = " " THEN trimEnd(SubSeq(cs, 1, Len(cs) - 1)) ELSE cs

trimString(cs) == trimEnd(trimStart(cs))

\* the < of two strings: by code units, a proper prefix first
RECURSIVE Less(_, _)
Less(s, t) ==
    IF t = <<>> THEN FALSE
    ELSE IF s = <<>> THEN TRUE
    ELSE IF CharCode[Head(s)] # CharCode[Head(t)] THEN CharCode[Head(s)] < CharCode[Head(t)]
    ELSE Less(Tail(s), Tail(t))

Reverse(seq) == [i \in DOMAIN seq |-> seq[Len(seq) + 1 - i]]

(***************************************************************************)
(* KnowledgeGraph.generateKnowledgeGraph, knowledge-graph.tsx 131-245.     *)
(* The three dictionaries keep their keys in insertion order (keys), and a *)
(* Set keeps its members in insertion order.                               *)
(***************************************************************************)
EmptyMap == [k \in {} |-> 0]
Lookup(map, k, default) == IF k \in DOMAIN map THEN map[k] ELSE default
Put(map, k, value) == (k :> value) @@ map

\* Set.prototype.add
add(members, x) ==
    IF \E i \in DOMAIN members : members[i] = x THEN members ELSE Append(members, x)

\* initialNodes and initialEdges, lines 18-112
initialNodes ==
    <<[id |-> "meetings"], [id |-> "project-planning"], [id |-> "brainstorming"],
      [id |-> "ideas"], [id |-> "decisions"]>>
initialEdges ==
    <<[id |-> "meetings-planning", source |-> "meetings", target |-> "project-planning"],
      [id |-> "meetings-brainstorming", source |-> "meetings", target |-> "brainstorming"],
      [id |-> "planning-decisions", source |-> "project-planning", target |-> "decisions"],
      [id |-> "brainstorming-ideas", source |-> "brainstorming", target |-> "ideas"]>>

\* .select('tags, sentiment, title').eq('user_id', user?.id).not('tags', 'is', null)
selectTagged(rows, user) ==
    SelectSeq(rows, LAMBDA r : r.user_id = user /\ r.tags.t # "null")

\* lines 165-169: the inner forEach over the tags of the same recording
RECURSIVE connectOthers(_, _, _)
connectOthers(connections, tag, others) ==
    IF others = <<>> THEN connections
    ELSE connectOthers(IF Head(others).v # tag THEN add(connections, Head(others).v)
                       ELSE connections,
                       tag, Tail(others))

EmptyTally ==
    [keys |-> <<>>, tagCounts |-> EmptyMap, tagSentiments |-> EmptyMap,
     tagConnections |-> EmptyMap]

\* lines 156-170: the body of tags.forEach for one tag
visitTag(tally, tags, sentiment, tag) ==
    [keys |-> IF tag \in DOMAIN tally.tagCounts THEN tally.keys ELSE Append(tally.keys, tag),
     tagCounts |-> Put(tally.tagCounts, tag, Lookup(tally.tagCounts, tag, 0) + 1),
     tagSentiments |-> Put(tally.tagSentiments, tag,
                           Append(Lookup(tally.tagSentiments, tag, <<>>), sentiment)),
     tagConnections |-> Put(tally.tagConnections, tag,
                            connectOthers(Lookup(tally.tagConnections, tag, <<>>), tag, tags))]

RECURSIVE visitTags(_, _, _, _)
visitTags(tally, tags, sentiment, rest) ==
    IF rest = <<>> THEN tally
    ELSE visitTags(visitTag(tally, tags, sentiment, Head(rest).v), tags, sentiment, Tail(rest))

\* lines 151-171: recordings.forEach
RECURSIVE visitRecordings(_, _)
visitRecordings(tally, rows) ==
    IF rows = <<>> THEN tally
    ELSE LET recording == Head(rows)
             tags == IF recording.tags.t = "array" THEN recording.tags.v ELSE <<>>
             sentiment == IF Truthy(recording.sentiment) THEN recording.sentiment.v
                          ELSE "neutral"
         IN  visitRecordings(visitTags(tally, tags, sentiment, tags), Tail(rows))

\* lines 247-254: the counts in encounter order, then the reduce that keeps the
\* accumulator only when its count is strictly greater
RECURSIVE distinctInOrder(_, _)
distinctInOrder(seen, rest) ==
    IF rest = <<>> THEN seen ELSE distinctInOrder(add(seen, Head(rest)), Tail(rest))

\* the reduce of line 253 keeping the accumulator on a tie as well
RECURSIVE reduceDominantKeepingTies(_, _, _)
reduceDominantKeepingTies(a, rest, counts) ==
    IF rest = <<>> THEN a
    ELSE reduceDominantKeepingTies(IF counts[a] >= counts[Head(rest)] THEN a ELSE Head(rest),
                                   Tail(rest), counts)

RECURSIVE reduceDominant(_, _, _)
reduceDominant(a, rest, counts) ==
    IF rest = <<>> THEN a
    ELSE reduceDominant(IF counts[a] > counts[Head(rest)] THEN a ELSE Head(rest),
                        Tail(rest), counts)

getDominantSentiment(sentiments) ==
    LET entries == distinctInOrder(<<>>, sentiments)
        counts == [s \in {entries[i] : i \in DOMAIN entries} |->
                      Cardinality({i \in DOMAIN sentiments : sentiments[i] = s})]
    IN  reduceDominant(Head(entries), Tail(entries), counts)

Max(a, b) == IF a > b THEN a ELSE b
Min(a, b) == IF a < b THEN a ELSE b

\* lines 182-211
newNode(tally, tag) ==
    [id |-> tag,
     count |-> tally.tagCounts[tag],
     sentiment |-> getDominantSentiment(tally.tagSentiments[tag]),
     nodeSize |-> Max(60, Min(120, tally.tagCounts[tag] * 20))]

\* the edge test of line 218 with every pair kept in both directions
edgeWantedBothWays(tally, source, target) ==
    Lookup(tally.tagCounts, target, 0) # 0

\* line 218: tagCounts[target] && source < target
edgeWanted(tally, source, target) ==
    Lookup(tally.tagCounts, target, 0) # 0 /\ Less(source, target)

\* lines 219-230
newEdge(tally, source, target) ==
    [id |-> source \o <<"-">> \o target,
     source |-> source,
     target |-> target,
     connectionStrength |-> Min(tally.tagCounts[source], tally.tagCounts[target])]

\* lines 216-232: targets.forEach for one source
RECURSIVE edgesOf(_, _, _)
edgesOf(tally, source, targets) ==
    IF targets = <<>> THEN <<>>
    ELSE (IF edgeWanted(tally, source, Head(targets))
          THEN <<newEdge(tally, source, Head(targets))>> ELSE <<>>)
             \o edgesOf(tally, source, Tail(targets))

\* lines 214-233: Object.entries(tagConnections).forEach
RECURSIVE edgesFrom(_, _)
edgesFrom(tally, sources) ==
    IF sources = <<>> THEN <<>>
    ELSE edgesOf(tally, Head(sources), tally.tagConnections[Head(sources)])
             \o edgesFrom(tally, Tail(sources))

\* the whole of generateKnowledgeGraph once the select has settled
generateKnowledgeGraph(fetched) ==
    /\ isLoading
    /\ LET selected == selectTagged(recordings, UserId)
           tally == visitRecordings(EmptyTally, selected)
       IN  IF ~fetched
           THEN /\ nodes' = initialNodes
                /\ edges' = initialEdges
                /\ last' = [op |-> "generateKnowledgeGraph", outcome |-> "error"]
           ELSE IF selected = <<>>
           THEN /\ nodes' = initialNodes
                /\ edges' = initialEdges
                /\ last' = [op |-> "generateKnowledgeGraph", outcome |-> "empty"]
           ELSE /\ nodes' = [i \in DOMAIN tally.keys |-> newNode(tally, tally.keys[i])]
                /\ edges' = edgesFrom(tally, tally.keys)
                /\ last' = [op |-> "generateKnowledgeGraph", outcome |-> "built"]
    /\ isLoading' = FALSE
    /\ UNCHANGED <<query, allRecordings, results>>
    /\ UNCHANGED pageVars
    /\ UNCHANGED <<recorderVars, componentVars, toasts, browserVars, serviceVars, saveVars,
                   backendVars, starts, unmounts, produced, received>>

\* the Graph tab is opened again (part_003 renders KnowledgeGraph inside a tab):
\* a fresh instance, its effect runs generateKnowledgeGraph anew
openGraph ==
    /\ ~isLoading
    /\ nodes' = <<>>
    /\ edges' = <<>>
    /\ isLoading' = TRUE
    /\ last' = [op |-> "openGraph", outcome |-> "loading"]
    /\ UNCHANGED <<query, allRecordings, results>>
    /\ UNCHANGED pageVars
    /\ UNCHANGED <<recorderVars, componentVars, toasts, browserVars, serviceVars, saveVars,
                   backendVars, starts, unmounts, produced, received>>

TagsOfRow(tags) == Arr([i \in DOMAIN tags |-> Chars(<<tags[i]>>)])

GraphRow(user, sentiment, tags) == Row(0, user, Chars(<<"T">>), JsNull, JsNull, sentiment, tags)

GraphRows ==
    {GraphRow(UserId, Str("positive"), TagsOfRow(<<"a", "b">>)),
     GraphRow(UserId, JsNull, TagsOfRow(<<"b", "c">>)),
     GraphRow(UserId, Str("negative"), TagsOfRow(<<"b", "a">>)),
     GraphRow(UserId, Str("positive"), TagsOfRow(<<"a", "a">>)),
     GraphRow(UserId, Str("negative"), TagsOfRow(<<"B", "a", "c">>)),
     GraphRow(UserId, Str("negative"), TagsOfRow(<<"a">>)),
     GraphRow(UserId, Str("positive"), TagsOfRow(<<>>)),
     GraphRow(UserId, Str("positive"), JsNull),
     GraphRow(OtherUser, Str("positive"), TagsOfRow(<<"a", "c">>))}

\* tables of up to MaxRecordings rows, the id of a row being its position
Tables(rows) ==
    UNION {{[i \in 1..n |-> [f[i] EXCEPT !.id = i]] : f \in [1..n -> rows]} :
              n \in 0..MaxRecordings}

InitGraph ==
    /\ HookInit
    /\ ComponentInit
    /\ BrowserInit
    /\ webmSupported = TRUE
    /\ ServiceIdle
    /\ SaveIdle
    /\ storageObjects = {}
    /\ recordings \in Tables(GraphRows)
    /\ highlights = <<>>
    /\ ViewsInit

NextGraph ==
    \/ \E fetched \in BOOLEAN : generateKnowledgeGraph(fetched)
    \/ openGraph

SpecGraph == InitGraph /\ [][NextGraph]_vars

\* what the claim speaks of, said without the code's bookkeeping
MyTagged == selectTagged(recordings, UserId)
TagAt(r, i) == MyTagged[r].tags.v[i].v
Positions == UNION {{<<r, i>> : i \in DOMAIN MyTagged[r].tags.v} : r \in DOMAIN MyTagged}
DistinctTags == {TagAt(p[1], p[2]) : p \in Positions}
Occurrences(tag) == Cardinality({p \in Positions : TagAt(p[1], p[2]) = tag})
CoOccurring ==
    {{TagAt(p[1], p[2]), TagAt(q[1], q[2])} :
        <<p, q>> \in {pq \in Positions \X Positions :
                         pq[1][1] = pq[2][1]
                             /\ TagAt(pq[1][1], pq[1][2]) # TagAt(pq[2][1], pq[2][2])}}

TagGraphIsExact ==
    /\ Len(nodes) = Cardinality(DistinctTags)
    /\ {nodes[i].id : i \in DOMAIN nodes} = DistinctTags
    /\ \A i \in DOMAIN nodes : nodes[i].count = Occurrences(nodes[i].id)
    /\ Len(edges) = Cardinality(CoOccurring)
    /\ {{edges[i].source, edges[i].target} : i \in DOMAIN edges} = CoOccurring
    /\ \A i \in DOMAIN edges : edges[i].source # edges[i].target

fetchRecordings(fetched) ==
    /\ allRecordings' = IF fetched THEN Reverse(recordings) ELSE allRecordings
    /\ last' = [op |-> "fetchRecordings", outcome |-> IF fetched THEN "ok" ELSE "error"]
    /\ UNCHANGED <<nodes, edges, isLoading, query, results>>
    /\ UNCHANGED pageVars
    /\ UNCHANGED <<recorderVars, componentVars, toasts, browserVars, serviceVars, saveVars,
                   backendVars, starts, unmounts, produced, received>>

\* the input's onChange, line 87
setQuery(value) ==
    /\ query # value
    /\ query' = value
    /\ last' = [op |-> "setQuery", outcome |-> "typed"]
    /\ UNCHANGED <<nodes, edges, isLoading, allRecordings, results>>
    /\ UNCHANGED pageVars
    /\ UNCHANGED <<recorderVars, componentVars, toasts, browserVars, serviceVars, saveVars,
                   backendVars, starts, unmounts, produced, received>>

\* the query as compared, without lowering its case
searchTextVerbatim(value) == value

\* line 58
searchText(value) == toLowerCase(value)

\* field?.toLowerCase().includes(searchText)
fieldIncludes(field, text) == field.t = "chars" /\ includes(toLowerCase(field.v), text)

\* lines 59-64
matches(recording, text) ==
    \/ fieldIncludes(recording.title, text)
    \/ fieldIncludes(recording.transcription, text)
    \/ fieldIncludes(recording.summary, text)
    \/ /\ recording.tags.t = "array"
       /\ \E i \in DOMAIN recording.tags.v : fieldIncludes(recording.tags.v[i], text)

Ellipsis == <<".", ".", ".">>
UntitledRecording == Chars(<<"U", "n", "t", "i", "t", "l", "e", "d">>)

\* lines 65-73; transcription?.substring(0, 150) + '...' is never falsy
searchResult(recording) ==
    [id |-> recording.id,
     title |-> IF Truthy(recording.title) THEN recording.title ELSE UntitledRecording,
     snippet |-> IF Truthy(recording.summary) THEN recording.summary
                 ELSE IF recording.transcription.t = "chars"
                      THEN Chars(SubSeq(recording.transcription.v, 1,
                                        Min(150, Len(recording.transcription.v))) \o Ellipsis)
                      ELSE Chars(<<"undefined">> \o Ellipsis),
     tags |-> IF Truthy(recording.tags) THEN recording.tags ELSE Arr(<<>>),
     transcription |-> recording.transcription]

\* lines 48-77; isSearching is set and cleared within the handler
handleSearch ==
    /\ IF trimString(query) = <<>>
       THEN /\ results' = <<>>
            /\ last' = [op |-> "handleSearch", outcome |-> "blank"]
       ELSE LET filtered == SelectSeq(allRecordings,
                                      LAMBDA recording : matches(recording, searchText(query)))
            IN  /\ results' = [i \in DOMAIN filtered |-> searchResult(filtered[i])]
                /\ last' = [op |-> "handleSearch", outcome |-> "searched"]
    /\ UNCHANGED <<nodes, edges, isLoading, query, allRecordings>>
    /\ UNCHANGED pageVars
    /\ UNCHANGED <<recorderVars, componentVars, toasts, browserVars, serviceVars, saveVars,
                   backendVars, starts, unmounts, produced, received>>

Queries ==
    {<<>>, <<" ">>, <<"t">>, <<"T", "E">>, <<" ", "t">>, <<"e", " ">>, <<"c">>, <<"x">>}

TitleTe == Chars(<<"T", "e">>)
TranscriptETt == Chars(<<"e", "T", " ", "t">>)
SummaryBeb == Chars(<<"B", "e", " ", "b">>)
TagsCTa == Arr(<<Chars(<<"c">>), Chars(<<"T", "a">>)>>)

\* every column of a recordings row but id and user_id may be null
SearchRows ==
    {Row(0, UserId, JsNull, JsNull, JsNull, JsNull, JsNull),
     Row(0, UserId, TitleTe, JsNull, JsNull, JsNull, JsNull),
     Row(0, UserId, JsNull, TranscriptETt, JsNull, JsNull, JsNull),
     Row(0, UserId, JsNull, JsNull, SummaryBeb, JsNull, JsNull),
     Row(0, UserId, JsNull, JsNull, JsNull, JsNull, TagsCTa),
     Row(0, UserId, TitleTe, JsNull, SummaryBeb, Str("neutral"), Arr(<<>>))}

InitSearch ==
    /\ HookInit
    /\ ComponentInit
    /\ BrowserInit
    /\ webmSupported = TRUE
    /\ ServiceIdle
    /\ SaveIdle
    /\ storageObjects = {}
    /\ recordings \in Tables(SearchRows)
    /\ highlights = <<>>
    /\ ViewsInit

NextSearch ==
    \/ \E fetched \in BOOLEAN : fetchRecordings(fetched)
    \/ \E value \in Queries : setQuery(value)
    \/ handleSearch

SpecSearch == InitSearch /\ [][NextSearch]_vars

\* two characters are the same letter
SameLetter(c, d) == c = d \/ toLowerCase(<<c>>) = toLowerCase(<<d>>)

\* the query occurs in the field, letter for letter, whatever the case
OccursIn(field) ==
    /\ field.t = "chars"
    /\ \E start \in 0..Len(field.v) :
           /\ start + Len(query) <= Len(field.v)
           /\ \A k \in DOMAIN query : SameLetter(field.v[start + k], query[k])

Hits ==
    {i \in DOMAIN allRecordings :
        \/ OccursIn(allRecordings[i].title)
        \/ OccursIn(allRecordings[i].transcription)
        \/ OccursIn(allRecordings[i].summary)
        \/ /\ allRecordings[i].tags.t = "array"
           /\ \E j \in DOMAIN allRecordings[i].tags.v : OccursIn(allRecordings[i].tags.v[j])}

IsBlank(cs) == \A i \in DOMAIN cs : cs[i] = " "

\* C6: a search returns exactly the loaded recordings in which the query
\* occurs, case-insensitively, in the title, the transcript, the summary or a
\* tag, and nothing for an empty or whitespace-only query.
C6_SearchIsSubstringMatch ==
    last.op = "handleSearch" =>
        IF IsBlank(query)
        THEN results = <<>>
        ELSE /\ Len(results) = Cardinality(Hits)
             /\ {results[i].id : i \in DOMAIN results}
                    = {allRecordings[i].id : i \in Hits}

C6_Witness ==
    /\ last.op = "handleSearch"
    /\ query = <<"T", "E">>
    /\ Len(results) = 1
    /\ Len(allRecordings) = 2

(***************************************************************************)
(* Properties of the runs of handleSaveAndTranscribe.                      *)
(***************************************************************************)
Uploaded == fileName # Undefined /\ fileName \in storageObjects
Transcribed == Truthy(Get(transcriptionData, "text"))
Analyzed == analysisData # Undefined

HasAnalysisFields(row) ==
    Truthy(row.summary) /\ Truthy(row.sentiment) /\ row.tags.t = "array"

RowsInOrder ==
    /\ Len(recordings) \in {Len(rowsBefore), Len(rowsBefore) + 1}
    /\ SubSeq(recordings, 1, Len(rowsBefore)) = rowsBefore

StepsInOrder ==
    /\ savePc \in {"read", "transcribe", "analyze", "duration", "stalled", "insert", "select",
                   "highlights"} => Uploaded
    /\ savePc \in {"analyze", "duration", "stalled", "insert", "select", "highlights"}
           => Uploaded /\ Transcribed
    /\ savePc \in {"duration", "stalled", "insert", "select", "highlights"}
           => Uploaded /\ Transcribed /\ Analyzed
    /\ Len(recordings) > Len(rowsBefore) =>
           /\ Uploaded /\ Transcribed /\ Analyzed
           /\ recordings[Len(recordings)].audio_url = getPublicUrl(fileName)
           /\ recordings[Len(recordings)].transcription = Get(transcriptionData, "text")
           /\ recordings[Len(recordings)].summary = Get(analysisData, "summary")
           /\ recordings[Len(recordings)].sentiment = Get(analysisData, "sentiment")
           /\ recordings[Len(recordings)].tags = Get(analysisData, "tags")

\* C14 as stated: the steps of a run are taken in order, a run inserts at most
\* one row, and every row has a transcript, a summary, a sentiment and tags.
C14_OrderedAndComplete ==
    /\ StepsInOrder
    /\ RowsInOrder
    /\ \A i \in DOMAIN recordings :
           Truthy(recordings[i].transcription) /\ HasAnalysisFields(recordings[i])

\* C14: in every run the upload has completed before the transcription is
\* requested, the transcription before the analysis, the analysis before the
\* insert; a run inserts at most one row; the row carries the non-empty
\* transcript and the summary, sentiment and tags of the analysis data as they
\* are, which are missing from the row when the analysis answered with a
\* success that lacks them.
C14_OrderedAndTranscribed ==
    /\ StepsInOrder
    /\ RowsInOrder
    /\ \A i \in DOMAIN recordings : Truthy(recordings[i].transcription)

\* a row without summary and tags has been inserted after the three steps
C14_Witness ==
    /\ last = [op |-> "insertDone", outcome |-> "ok"]
    /\ Len(recordings) = Len(rowsBefore) + 1
    /\ ~HasAnalysisFields(recordings[Len(recordings)])
    /\ Truthy(recordings[Len(recordings)].transcription)

AnalysisSettled == last.op = "analyzeDone"
AnalysisHasSummary == Truthy(Get(lastInvoke.data, "summary"))
AnalysisHasError == lastInvoke.error # NoError

RunAborted == savePc = "idle" /\ ~isProcessing /\ IsErrorToast /\ recordings = rowsBefore

\* C15 as stated: with a summary the run goes on; with neither a summary nor
\* an error it is aborted and no row is written.
C15_AbortsWithoutSummaryOrError ==
    /\ (AnalysisSettled /\ AnalysisHasSummary) => savePc = "duration"
    /\ (AnalysisSettled /\ ~AnalysisHasSummary /\ ~AnalysisHasError) => RunAborted
    /\ (Analyzed /\ ~Truthy(Get(analysisData, "summary"))) => recordings = rowsBefore

\* C15: with a summary in the analysis response the run goes on to persist,
\* the error not being looked at; without a summary and with an error it is
\* aborted with "Analysis failed: ..." and no row is written; with neither a
\* summary nor an error it goes on with the data as they are, and is aborted
\* later only when the data are null, by the read of a property of null while
\* the row is built.
C15_AbortsOnErrorWithoutSummary ==
    /\ (AnalysisSettled /\ AnalysisHasSummary) =>
           savePc = "duration" /\ analysisData = lastInvoke.data
    /\ (AnalysisSettled /\ ~AnalysisHasSummary /\ AnalysisHasError) =>
           /\ RunAborted
           /\ toast = ProcessingErrorToast("Analysis failed: " \o lastInvoke.error.message)
    /\ (AnalysisSettled /\ ~AnalysisHasSummary /\ ~AnalysisHasError) =>
           savePc = "duration" /\ analysisData = lastInvoke.data
    /\ last = [op |-> "loadedmetadata", outcome |-> "failed"] =>
           analysisData = JsNull /\ RunAborted
    /\ last = [op |-> "loadedmetadata", outcome |-> "ok"] => analysisData.t = "object"

\* the analysis answered 200 with an object that has no summary, and the run
\* went on
C15_Witness ==
    /\ last = [op |-> "analyzeDone", outcome |-> "continued"]
    /\ lastInvoke.response.status = 200
    /\ lastInvoke.data = Obj([sentiment |-> Str("mixed")])
    /\ savePc = "duration"

\* the response of a service whose request to the upstream endpoint was
\* answered with a non-success status
UpstreamRefused(op) ==
    /\ last.op = op
    /\ lastInvoke.response # Undefined
    /\ lastInvoke.response.fetched
    /\ lastInvoke.response.status = 500
    /\ Truthy(Get(lastInvoke.response.body, "error"))
    /\ Get(lastInvoke.response.body, "error").v \in
           {"Gemini API error: 503", "Gemini API error: 503 - overloaded"}

\* C16: a non-success status of the upstream endpoint at the analysis does not
\* end the run, which goes on with the neutral fallback fields, while the same
\* at the transcription ends it.
C16_AnalysisFailureDegrades ==
    /\ UpstreamRefused("analyzeDone") =>
           /\ savePc = "duration"
           /\ Get(analysisData, "sentiment") = Str("neutral")
    /\ UpstreamRefused("transcribeDone") => RunAborted

Oversize == base64Length > MaxAudioLength

\* C17 as stated: audio longer than the ceiling is turned down in the
\* component, and no request for it is made to the transcription service.
C17_RejectedBeforeInvoke ==
    Oversize => savePc # "transcribe" /\ last.op # "transcribeDone"

\* C17: the component makes the request to the transcription service whatever
\* the length of the audio; for audio longer than the ceiling the service
\* answers 500 without a request to the upstream endpoint, and the run is
\* aborted with "Transcription failed: ..." and no row is written.
C17_RejectedByService ==
    /\ (savePc = "read" /\ Oversize) => ENABLED onloadend
    /\ (last.op = "transcribeDone" /\ Oversize) =>
           /\ RunAborted
           /\ toast = ProcessingErrorToast("Transcription failed: " \o lastInvoke.error.message)
           /\ lastInvoke.response # Undefined =>
                  /\ lastInvoke.response.status = 500
                  /\ ~lastInvoke.response.fetched
                  /\ Get(lastInvoke.response.body, "error").v \in
                         {"Audio file too large. Please use shorter recordings.",
                          "Gemini API key not configured"}

\* the service turned down audio of one character more than the ceiling
C17_Witness ==
    /\ last = [op |-> "transcribeDone", outcome |-> "failed"]
    /\ base64Length = MaxAudioLength + 1
    /\ lastInvoke.response # Undefined
    /\ Get(lastInvoke.response.body, "error") =
           Str("Audio file too large. Please use shorter recordings.")
    /\ lastInvoke.error = InvokeHttpError
    /\ recordings = rowsBefore

RowWritten == Len(recordings) > Len(rowsBefore)

\* C18: a run whose audio element reports an error instead of its metadata
\* still goes on to write its row and to end.
C18_DurationIsBestEffort ==
    (last.op = "audioError") ~> (RowWritten \/ last.op = "insertDone")

\* C19: a run that has begun ends: isProcessing, once true, is false again
\* later.
C19_EveryRunEnds == isProcessing ~> ~isProcessing

InsertRefused == last.op = "insertDone" /\ last.outcome = "failed"

\* C20: an insert of the recording that is refused ends the run: an error
\* toast is shown, the recordings and highlights tables and the count of
\* recording-saved events are what they were, and the preview is kept.
C20_InsertFailureIsTerminal ==
    /\ [](InsertRefused => RunAborted)
    /\ [][(savePc = "insert" /\ InsertRefused') =>
             /\ toast'.title = "Processing Error"
             /\ toast'.description \in InsertErrorMessages
             /\ toastCount' = toastCount + 1
             /\ recordings' = recordings
             /\ recordings' = rowsBefore
             /\ highlights' = highlights
             /\ savedEvents' = savedEvents
             /\ audioUrl' = audioUrl
             /\ savePc' = "idle"
             /\ ~isProcessing']_vars

\* the insert of a row whose analysis has highlights was refused by the
\* table's policy
C20_Witness ==
    /\ InsertRefused
    /\ HasHighlights
    /\ pendingRow # Undefined
    /\ toast = ProcessingErrorToast("new row violates row-level security policy")
    /\ recordings = rowsBefore
    /\ savedEvents = 0


(***************************************************************************)
(* The transcription service serving one request.                          *)
(***************************************************************************)
TranscribeBodies ==
    {Obj(<<>>), Obj([audio |-> Base64(0)]), Obj([audio |-> Base64(60)]),
     Obj([audio |-> Base64(MaxAudioLength)]), Obj([audio |-> Base64(MaxAudioLength + 1)])}

InitTranscribe ==
    /\ HookInit
    /\ ComponentInit
    /\ BrowserInit
    /\ webmSupported = TRUE
    /\ reqMethod \in {"POST", "OPTIONS"}
    /\ reqBody \in TranscribeBodies
    /\ geminiApiKey \in ApiKeys
    /\ geminiReply \in TranscribeReplies
    /\ httpResponse = Undefined
    /\ fetchCount = 0
    /\ SaveIdle
    /\ BackendEmpty
    /\ ViewsInit

\* serve(), lines 9-122: one request is answered
serveTranscribe ==
    /\ httpResponse = Undefined
    /\ httpResponse' = transcribeAudio(reqMethod, reqBody, geminiApiKey, geminiReply)
    /\ fetchCount' = fetchCount + (IF httpResponse'.fetched THEN 1 ELSE 0)
    /\ UNCHANGED <<reqMethod, reqBody, geminiApiKey, geminiReply>>
    /\ UNCHANGED <<recorderVars, componentVars, toasts, browserVars, historyVars,
                   saveVars, backendVars, viewVars>>

NextTranscribe == serveTranscribe

SpecTranscribe == InitTranscribe /\ [][NextTranscribe]_vars

AnsweredPost == Answered /\ reqMethod = "POST"
AudioMissing == Get(reqBody, "audio") \in {Undefined, Base64(0)}
AudioTooLong ==
    Get(reqBody, "audio").t = "base64" /\ Get(reqBody, "audio").v > MaxAudioLength
Keys(body) == IF body.t = "object" THEN DOMAIN body.v ELSE {}

\* C24: a POST whose audio is missing or empty, or longer than 10,000,000
\* characters, is answered with a 500 that names the fault, and the endpoint
\* is not asked.
C24_InvalidNeverForwarded ==
    (AnsweredPost /\ (AudioMissing \/ AudioTooLong)) =>
        /\ httpResponse.status = 500
        /\ ~httpResponse.fetched
        /\ fetchCount = 0
        /\ Get(httpResponse.body, "error") =
               IF AudioMissing THEN Str("No audio data provided")
               ELSE IF ~Truthy(geminiApiKey) THEN Str("Gemini API key not configured")
               ELSE Str("Audio file too large. Please use shorter recordings.")

\* audio of one character more than the ceiling, with a key configured and an
\* endpoint that would have answered, was turned down
C24_Witness ==
    /\ AnsweredPost
    /\ reqBody = Obj([audio |-> Base64(MaxAudioLength + 1)])
    /\ Truthy(geminiApiKey)
    /\ geminiReply.ok
    /\ httpResponse.status = 500
    /\ Get(httpResponse.body, "error") =
           Str("Audio file too large. Please use shorter recordings.")
    /\ fetchCount = 0

UpstreamAsked == ~AudioMissing /\ ~AudioTooLong /\ Truthy(geminiApiKey)
UpstreamAnswered == UpstreamAsked /\ geminiReply.kind = "http"

\* C25 as stated: every answer to a POST is a 200 with text and language or a
\* 500 with error, details and gemini_status.
C25_TwoShapes ==
    AnsweredPost =>
        \/ httpResponse.status = 200 /\ Keys(httpResponse.body) = {"text", "language"}
        \/ /\ httpResponse.status = 500
           /\ Keys(httpResponse.body) = {"error", "details", "gemini_status"}

\* C25: every answer to a POST is a 200 with text and language, or a 500; the
\* 500 carries error, details and gemini_status, with the status and the body
\* of the endpoint's answer, exactly when the endpoint answered with a
\* non-success, and error, type and timestamp for every other failure.
C25_ThreeShapes ==
    AnsweredPost =>
        IF UpstreamAnswered /\ ~geminiReply.ok
        THEN /\ httpResponse.status = 500
             /\ Keys(httpResponse.body) = {"error", "details", "gemini_status"}
             /\ Get(httpResponse.body, "gemini_status") = Num(geminiReply.status)
             /\ Get(httpResponse.body, "details") = Str(geminiReply.text)
             /\ Get(httpResponse.body, "error") =
                    Str("Gemini API error: " \o ToString(geminiReply.status))
        ELSE \/ /\ httpResponse.status = 200
                /\ Keys(httpResponse.body) = {"text", "language"}
                /\ UpstreamAnswered /\ geminiReply.ok
                /\ Get(httpResponse.body, "language") = Str("auto-detected")
             \/ /\ httpResponse.status = 500
                /\ Keys(httpResponse.body) = {"error", "type", "timestamp"}

\* the endpoint answered with a success that has no text, and the 500 is of
\* the third shape
C25_Witness ==
    /\ AnsweredPost
    /\ httpResponse.status = 500
    /\ Keys(httpResponse.body) = {"error", "type", "timestamp"}
    /\ Get(httpResponse.body, "error") = Str("No transcription text returned from Gemini")
    /\ fetchCount = 1


(***************************************************************************)
(* The failures of the analysis service, checked under SpecAnalyze.        *)
(***************************************************************************)
TextMissing == ~Truthy(Get(reqBody, "text"))
KeyMissing == ~Truthy(geminiApiKey)
UpstreamRefusedAnalysis ==
    ~TextMissing /\ ~KeyMissing /\ geminiReply.kind = "http" /\ ~geminiReply.ok

IsAnalysisStub(body) ==
    /\ Keys(body) = {"error", "summary", "keyPoints", "sentiment", "tags", "highlights",
                     "actionItems"}
    /\ Truthy(Get(body, "error"))
    /\ Get(body, "summary") = Str("Analysis failed")
    /\ Get(body, "keyPoints") = Arr(<<>>)
    /\ Get(body, "sentiment") = Str("neutral")
    /\ Get(body, "tags") = Arr(<<>>)
    /\ Get(body, "highlights") = Arr(<<>>)
    /\ Get(body, "actionItems") = Arr(<<>>)

\* C26: a POST without text, or served without an API key, or refused by the
\* endpoint, is answered with a 500 whose body has the error and the stub
\* fields; without text or without a key the endpoint is not asked.
C26_FailuresAnswerStub ==
    (AnsweredPost /\ (TextMissing \/ KeyMissing \/ UpstreamRefusedAnalysis)) =>
        /\ httpResponse.status = 500
        /\ IsAnalysisStub(httpResponse.body)
        /\ (TextMissing \/ KeyMissing) => ~httpResponse.fetched /\ fetchCount = 0
        /\ Get(httpResponse.body, "error") =
               IF TextMissing THEN Str("No transcription text provided")
               ELSE IF KeyMissing THEN Str("Gemini API key not configured")
               ELSE Str("Gemini API error: " \o ToString(geminiReply.status) \o " - "
                            \o geminiReply.text)

\* the endpoint refused a request that had a text and a key
C26_Witness ==
    /\ AnsweredPost
    /\ UpstreamRefusedAnalysis
    /\ httpResponse.status = 500
    /\ fetchCount = 1
    /\ Get(httpResponse.body, "summary") = Str("Analysis failed")


(***************************************************************************)
(* The sentiment of a tag's node, checked under SpecGraph.                 *)
(***************************************************************************)
SentimentOfRow(r) ==
    IF Truthy(MyTagged[r].sentiment) THEN MyTagged[r].sentiment.v ELSE "neutral"

\* the occurrences of a tag, each with the sentiment of its recording
Bearing(tag) == {p \in Positions : TagAt(p[1], p[2]) = tag}
SentimentsOfTag(tag) == {SentimentOfRow(p[1]) : p \in Bearing(tag)}
Votes(tag, sentiment) ==
    Cardinality({p \in Bearing(tag) : SentimentOfRow(p[1]) = sentiment})
FirstRow(tag, sentiment) ==
    CHOOSE r \in DOMAIN MyTagged :
        /\ \E p \in Bearing(tag) : p[1] = r /\ SentimentOfRow(r) = sentiment
        /\ \A p \in Bearing(tag) : SentimentOfRow(p[1]) = sentiment => r <= p[1]

IsDominant(tag, sentiment) ==
    /\ sentiment \in SentimentsOfTag(tag)
    /\ \A other \in SentimentsOfTag(tag) : Votes(tag, other) <= Votes(tag, sentiment)

GraphBuilt == last.op = "generateKnowledgeGraph" /\ last.outcome = "built"

\* C30 as stated: the sentiment of a tag's node has the most votes among the
\* tag's recordings, and of several with the most votes it is the one met
\* first.
C30_FirstOfTheTied ==
    GraphBuilt =>
        \A i \in DOMAIN nodes :
            /\ IsDominant(nodes[i].id, nodes[i].sentiment)
            /\ \A other \in SentimentsOfTag(nodes[i].id) :
                   IsDominant(nodes[i].id, other) =>
                       FirstRow(nodes[i].id, nodes[i].sentiment) <= FirstRow(nodes[i].id, other)

\* C30: the sentiment of a tag's node has the most votes, one vote per
\* occurrence of the tag and a recording without sentiment voting neutral, and
\* of several with the most votes it is the one met last.
C30_LastOfTheTied ==
    GraphBuilt =>
        \A i \in DOMAIN nodes :
            /\ IsDominant(nodes[i].id, nodes[i].sentiment)
            /\ \A other \in SentimentsOfTag(nodes[i].id) :
                   IsDominant(nodes[i].id, other) =>
                       FirstRow(nodes[i].id, other) <= FirstRow(nodes[i].id, nodes[i].sentiment)

\* tag a has one positive and one negative vote, the positive met first, and
\* its node is negative
C30_Witness ==
    /\ GraphBuilt
    /\ Len(MyTagged) = 2
    /\ SentimentOfRow(1) = "positive" /\ SentimentOfRow(2) = "negative"
    /\ Votes(<<"a">>, "positive") = 1 /\ Votes(<<"a">>, "negative") = 1
    /\ \E i \in DOMAIN nodes : nodes[i].id = <<"a">> /\ nodes[i].sentiment = "negative"


(***************************************************************************)
(* What the recorder holds while it is not recording and under             *)
(* overlapping starts, checked under Spec.                                 *)
(***************************************************************************)
\* C28: while the recorder is not recording, no stream has a live track and
\* no interval is running, a start that failed after the microphone was
\* granted included.
C28_IdleHoldsNothing ==
    ~isRecording => liveStreams = {} /\ activeTimers = {}

\* C29: with the component mounted throughout and a browser that records
\* audio/webm, whatever the order of the startRecording() calls and of their
\* continuations, at most one stream is live and at most one interval is
\* running, and they are the ones the hook's refs hold.
C29_OneStreamOneTimer ==
    (unmounts = 0 /\ webmSupported) =>
        /\ Cardinality(liveStreams) <= 1
        /\ Cardinality(activeTimers) <= 1
        /\ liveStreams \subseteq {streamRef}
        /\ activeTimers \subseteq {intervalRef}


(***************************************************************************)
(* No step of handleSaveAndTranscribe is taken twice, under SpecSave.      *)
(***************************************************************************)
\* the awaits of a run in the order of the code; each request is sent on
\* entering its await
Rank(pc) ==
    CASE pc = "idle" -> 0 [] pc = "upload" -> 1 [] pc = "read" -> 2 [] pc = "transcribe" -> 3
      [] pc = "analyze" -> 4 [] pc = "duration" -> 5 [] pc = "stalled" -> 6 [] pc = "insert" -> 7
      [] pc = "select" -> 8 [] pc = "highlights" -> 9

SaveOps ==
    {"handleSaveAndTranscribe", "uploadDone", "onloadend", "transcribeDone", "analyzeDone",
     "loadedmetadata", "audioError", "insertDone", "selectDone", "highlightInserted"}

RunFailed == last.op \in SaveOps /\ last.outcome = "failed" /\ last.op # "highlightInserted"
                 /\ last.op # "selectDone"

\* C22: within a run every await is entered at most once and in the order of
\* the code; a step that fails puts the run back to idle, from where only a click on Save
\* starts the upload again, as a new run; the bucket and the table are written
\* only by the settling of the upload and of the insert.
C22_NoRetry ==
    /\ [](RunFailed => savePc = "idle" /\ ~isProcessing)
    /\ [][/\ savePc' # savePc =>
                IF savePc = "idle"
                THEN savePc' = "upload" /\ runs' = runs + 1 /\ ~isProcessing /\ mounted
                ELSE savePc' = "idle" \/ Rank(savePc') > Rank(savePc)
          /\ savePc' = savePc =>
                /\ UNCHANGED <<runs, storageObjects, recordings, highlights, lastInvoke>>
                /\ last'.op \notin SaveOps \/ last' = last
          /\ storageObjects' # storageObjects => savePc = "upload"
          /\ recordings' # recordings => savePc = "insert"
          /\ lastInvoke' # lastInvoke => savePc \in {"idle", "transcribe", "analyze"}]_vars

\* the analysis of a run failed after its upload and its transcription; the
\* run is over
C22_Witness ==
    /\ last = [op |-> "analyzeDone", outcome |-> "failed"]
    /\ savePc = "idle"
    /\ Uploaded /\ Transcribed
    /\ runs = 1


(***************************************************************************)
(* The Index page, part_003 329-815: its tabs, whose content is rendered   *)
(* only while the tab is active (646-811), its list of recordings, and its *)
(* listener of 'recording-saved' (355-366).  A run of                      *)
(* handleSaveAndTranscribe goes on when its tab is left.  The Graph tab,   *)
(* whose view fetches when it mounts as the Search view does               *)
(* (knowledge-graph.tsx 125-129), is not among the tabs visited.           *)
(***************************************************************************)
Tabs == {"record", "library", "search"}

\* onValueChange={setActiveTab}, line 646, with what the change of content
\* mounts and unmounts; no recording is under way
setActiveTab(tab) ==
    /\ tab # activeTab
    /\ ~isRecording /\ pendingStarts = 0 /\ stopQueued = {}
    /\ activeTab = "record" => unmounts < MaxUnmounts
    /\ activeTab' = tab
    /\ IF activeTab = "record"
       THEN \* RecordingInterface and its hook lose their state
            /\ mounted' = FALSE
            /\ unmounts' = unmounts + 1
            /\ duration' = ZeroDuration
            /\ audioBlob' = NoBlob
            /\ mediaRecorderRef' = NoRef
            /\ streamRef' = NoRef
            /\ chunksRef' = <<>>
            /\ startTimeRef' = 0
            /\ intervalRef' = NoRef
            /\ title' = DefaultTitle
            /\ audioUrl' = NoRef
            /\ isProcessing' = FALSE
            /\ received' = <<>>
            /\ orphans' = 1..sessions
       ELSE /\ mounted' = (tab = "record")
            /\ UNCHANGED <<unmounts, duration, audioBlob, mediaRecorderRef, streamRef, chunksRef,
                           startTimeRef, intervalRef, title, audioUrl, isProcessing, received,
                           orphans>>
    \* SearchInterface starts from its initial state and fetches, lines 21-32
    /\ query' = <<>>
    /\ allRecordings' = <<>>
    /\ results' = <<>>
    /\ searchPending' = (tab = "search")
    /\ last' = [op |-> "setActiveTab", outcome |-> tab]
    /\ UNCHANGED <<isRecording, isPaused, toasts, now, webmSupported, pendingStarts, stalePending,
                   sessions, liveStreams, recorderState, onstop, stopQueued, activeTimers,
                   serviceVars, saveVars, backendVars, nodes, edges, isLoading,
                   indexRecordings, indexFetched, deletePc, deleteTarget, deletesDone,
                   starts, produced>>

\* fetchRecordings of the page, lines 379-391, settling: one call for each
\* 'recording-saved' event heard (lines 357-361) and for each deletion (574)
indexFetchRecordings(fetched) ==
    /\ indexFetched < savedEvents + deletesDone
    /\ indexFetched' = indexFetched + 1
    /\ indexRecordings' = IF fetched THEN Reverse(recordings) ELSE indexRecordings
    /\ last' = [op |-> "indexFetchRecordings", outcome |-> IF fetched THEN "ok" ELSE "error"]
    /\ UNCHANGED <<recorderVars, componentVars, toasts, browserVars, serviceVars, saveVars,
                   backendVars, nodes, edges, isLoading, query, allRecordings, results,
                   activeTab, searchPending, deletePc, deleteTarget, deletesDone,
                   starts, unmounts, produced, received>>

\* fetchRecordings of the mounted SearchInterface, search-interface.tsx 33-46,
\* settling
searchFetchRecordings(fetched) ==
    /\ searchPending
    /\ searchPending' = FALSE
    /\ allRecordings' = IF fetched THEN Reverse(recordings) ELSE allRecordings
    /\ last' = [op |-> "searchFetchRecordings", outcome |-> IF fetched THEN "ok" ELSE "error"]
    /\ UNCHANGED <<recorderVars, componentVars, toasts, browserVars, serviceVars, saveVars,
                   backendVars, nodes, edges, isLoading, query, results,
                   activeTab, indexRecordings, indexFetched, deletePc, deleteTarget, deletesDone,
                   starts, unmounts, produced, received>>

InitPage == InitSave

NextPage ==
    \/ handleSaveAndTranscribe
    \/ SaveStep
    \/ \E tab \in Tabs : setActiveTab(tab)
    \/ \E fetched \in BOOLEAN : indexFetchRecordings(fetched)
    \/ \E fetched \in BOOLEAN : searchFetchRecordings(fetched)

SpecPage == InitPage /\ [][NextPage]_vars

Signalled == savedEvents' = savedEvents + 1

\* C21: 'recording-saved' is dispatched only by a run that has written its
\* row, once, and when it is dispatched the page has a fetch of its list in
\* flight and so has the Search view if it is the one mounted.
C21_SignalRefetchesViews ==
    [][/\ savedEvents' # savedEvents => Signalled
       /\ Signalled =>
            /\ savePc # "idle" /\ savePc' = "idle"
            /\ Len(recordings') = Len(rowsBefore') + 1
            /\ toast' = SavedToast
            /\ indexFetched' < savedEvents' + deletesDone'
            /\ activeTab' = "search" => searchPending']_vars


(***************************************************************************)
(* The highlights of a run, under SpecSave.  The id of a recording is its  *)
(* position in the table.                                                  *)
(***************************************************************************)
AudioUrlsUnique ==
    \A i, j \in DOMAIN recordings :
        recordings[i].audio_url = recordings[j].audio_url => i = j

\* C23: no two recordings have the same audio_url; the lookup of a run that
\* gets through finds the row the run has just inserted, and it alone; the
\* highlights are written only after that, all with the id of that row, and
\* every highlight in the table has the id of a recording in the table.
C23_HighlightsKeyedByNewRow ==
    /\ [](AudioUrlsUnique)
    /\ [](\A k \in DOMAIN highlights : highlights[k].recording_id \in DOMAIN recordings)
    /\ [][/\ (savePc = "select" /\ last'.op = "selectDone" /\ last'.outcome = "ok") =>
                /\ savePc' = "highlights"
                /\ pendingRow'.recording_id = Len(rowsBefore) + 1
                /\ recordings[pendingRow'.recording_id].audio_url = getPublicUrl(fileName)
          /\ highlights' # highlights =>
                /\ savePc = "highlights"
                /\ Len(recordings) = Len(rowsBefore) + 1
                /\ SubSeq(highlights', 1, Len(highlights)) = highlights
                /\ \A k \in (Len(highlights) + 1)..Len(highlights') :
                       highlights'[k].recording_id = Len(recordings)]_vars

\* two runs have each written a recording and its highlight
C23_Witness ==
    /\ last = [op |-> "highlightInserted", outcome |-> "ok"]
    /\ Len(recordings) = 2
    /\ Len(highlights) = 2
    /\ highlights[1].recording_id = 1
    /\ highlights[2].recording_id = 2
    /\ recordings[1].audio_url # recordings[2].audio_url


(***************************************************************************)
(* Index.handleDeleteRecording, part_003 550-589, from the Library tab.    *)
(* The table holds rows with their ids; stats and fetchStats are left out. *)
(***************************************************************************)
MaxDeletes == 3

\* a recording as the pipeline has left it: the object of its audio in the
\* bucket under FileName(user, stamp) and its public URL in the row; a row
\* without audio has null there, which the column allows (migration line 14)
StoredRow(id, stamp) ==
    [id |-> id,
     user_id |-> UserId,
     title |-> DefaultTitle,
     audio_url |-> IF stamp = 0 THEN JsNull ELSE getPublicUrl(FileName(UserId, stamp))]

DeleteTable ==
    <<StoredRow(1, EpochStart), StoredRow(2, EpochStart + 1), StoredRow(3, 0)>>

\* recording.audio_url.split('/').pop(), line 558: the last segment of the
\* URL, which is the name without the folder of the user
LastSegment(url) == url.path.stamp

\* `${user?.id}/${fileName}`, line 562
RemoveKey(row) == FileName(UserId, LastSegment(row.audio_url))

RowsWithId(table, id) == {i \in DOMAIN table : table[i].id = id}

DeletedToast ==
    [title |-> "Recording deleted", description |-> "Recording has been permanently deleted."]
DeleteErrorToast ==
    [title |-> "Error", description |-> "Failed to delete recording. Please try again."]

deleteUnchanged ==
    UNCHANGED <<recorderVars, componentVars, browserVars, serviceVars, saveVars,
                nodes, edges, isLoading, query, allRecordings, results,
                activeTab, searchPending, indexRecordings, indexFetched,
                starts, unmounts, produced, received>>

\* lines 550-565: a card of the list calls onDelete(id); the row is looked up
\* in the state of the page, and the object is removed first when the row has
\* an audio_url
handleDeleteRecording(id) ==
    /\ activeTab = "library"
    /\ deletePc = "idle"
    /\ toastCount < MaxDeletes
    /\ RowsWithId(indexRecordings, id) # {}
    /\ LET recording == indexRecordings[CHOOSE i \in RowsWithId(indexRecordings, id) : TRUE]
       IN  /\ deleteTarget' = recording
           /\ deletePc' = IF recording.audio_url # JsNull THEN "remove" ELSE "delete"
    /\ last' = [op |-> "handleDeleteRecording", outcome |-> "called"]
    /\ UNCHANGED <<toasts, backendVars, deletesDone>>
    /\ deleteUnchanged

\* lines 560-563: storage remove settles; what it returns is not looked at
removeDone(removed) ==
    /\ deletePc = "remove"
    /\ storageObjects' = IF removed THEN storageObjects \ {RemoveKey(deleteTarget)}
                         ELSE storageObjects
    /\ deletePc' = "delete"
    /\ last' = [op |-> "removeDone", outcome |-> IF removed THEN "ok" ELSE "error"]
    /\ UNCHANGED <<toasts, recordings, highlights, deleteTarget, deletesDone>>
    /\ deleteUnchanged

\* lines 567-587: the delete of the row settles; the highlights of the row go
\* with it (ON DELETE CASCADE, migration line 27)
deleteDone(deleted) ==
    /\ deletePc = "delete"
    /\ IF deleted
       THEN /\ recordings' = SelectSeq(recordings, LAMBDA r : r.id # deleteTarget.id)
            /\ highlights' = SelectSeq(highlights,
                                       LAMBDA h : h.recording_id # deleteTarget.id)
            /\ deletesDone' = deletesDone + 1
            /\ toast' = DeletedToast
       ELSE /\ toast' = DeleteErrorToast
            /\ UNCHANGED <<recordings, highlights, deletesDone>>
    /\ toastCount' = toastCount + 1
    /\ deletePc' = "idle"
    /\ last' = [op |-> "deleteDone", outcome |-> IF deleted THEN "ok" ELSE "error"]
    /\ UNCHANGED <<storageObjects, deleteTarget>>
    /\ deleteUnchanged

InitDelete ==
    /\ HookInit
    /\ mounted = FALSE
    /\ title = DefaultTitle
    /\ isProcessing = FALSE
    /\ audioUrl = NoRef
    /\ toast = NoToast
    /\ toastCount = 0
    /\ BrowserInit
    /\ webmSupported = TRUE
    /\ ServiceIdle
    /\ SaveIdle
    /\ recordings = DeleteTable
    /\ storageObjects = {RemoveKey(DeleteTable[i]) :
                            i \in {j \in DOMAIN DeleteTable : DeleteTable[j].audio_url # JsNull}}
    /\ highlights = <<[recording_id |-> 1, content |-> Str("a"), timestamp_seconds |-> Num(1)],
                      [recording_id |-> 2, content |-> Str("b"), timestamp_seconds |-> Num(2)]>>
    /\ nodes = <<>>
    /\ edges = <<>>
    /\ isLoading = TRUE
    /\ query = <<>>
    /\ allRecordings = <<>>
    /\ results = <<>>
    /\ activeTab = "library"
    /\ indexRecordings = Reverse(DeleteTable)
    /\ indexFetched = 0
    /\ searchPending = FALSE
    /\ deletePc = "idle"
    /\ deleteTarget = Undefined
    /\ deletesDone = 0

NextDelete ==
    \/ \E id \in 1..Len(DeleteTable) : handleDeleteRecording(id)
    \/ \E removed \in BOOLEAN : removeDone(removed)
    \/ \E deleted \in BOOLEAN : deleteDone(deleted)
    \/ \E fetched \in BOOLEAN : indexFetchRecordings(fetched)

SpecDelete == InitDelete /\ [][NextDelete]_vars

RowExists(id) == RowsWithId(recordings, id) # {}
ObjectExists(id) == RemoveKey(DeleteTable[id]) \in storageObjects
WithAudio == {id \in DOMAIN DeleteTable : DeleteTable[id].audio_url # JsNull}

\* C27: once a call of handleDeleteRecording has returned, each recording
\* that had audio has both its row and its object or neither of them.
C27_RowAndObjectTogether ==
    deletePc = "idle" => \A id \in WithAudio : RowExists(id) <=> ObjectExists(id)

====
